---- MODULE Spec2Model ----
(***************************************************************************)
(* The attention core of llm_scratch_scratch: ScaledDotProductAttention   *)
(* and the head-sharing variants built around it (MultiHeadAttention,     *)
(* MultiQueryAttention, GroupedQueryAttention, MultiHeadLatentAttention). *)
(*                                                                         *)
(* Tensors are records [shape, at]: a shape (a sequence of sizes) and a   *)
(* function from index tuples to entries.  Inputs and projection weights  *)
(* hold integers.  Scores hold [inf, dot, dk], the value dot / sqrt(dk)   *)
(* or minus infinity.  Attention weights and outputs hold [nan, v], the   *)
(* value v / One in fixed point, or NaN.                                   *)
(*                                                                         *)
(* inst is the module under construction or in use, call the forward call *)
(* whose return the caller holds, kept an earlier return the caller has   *)
(* set aside.                                                              *)
(***************************************************************************)
EXTENDS Integers, Sequences, FiniteSets, TLC

VARIABLES inst, call, kept

vars == <<inst, call, kept>>

(* ------------------------------ bounds -------------------------------- *)

MaxBatch == 2

MaxSeq == 2

\* seeds of the generated input tensors
QSeeds == {1, 3}

KSeeds == {1, 2}

VSeeds == {1, 2}

MaskSeeds == 0..15

\* feature widths of the tensors handed directly to ScaledDotProductAttention
FeatureDims == {1, 2}

\* seeds of the input x of the multi-head variants, and of their masks
XSeeds == {3, 5}

VariantMaskSeeds == {0, 13, 15}

\* constructor arguments
EmbedDims == {2, 4}

HeadCounts == 0..4

GroupCounts == 0..4

LatentDims == {1, 2}

\* the initial weights of the q, k, v and output projections
WeightChoices ==
  { <<"eye", "eye", "eye", "eye">>, <<"eye", "rev", "eye", "eye">>,
    <<"eye", "eye", "rev", "eye">>, <<"rev", "eye", "eye", "rev">> }

\* dropout probabilities in tenths: nn.Dropout(0.0), nn.Dropout(0.5)
DropoutTenths == {0, 5}

(* ------------------------------ numbers ------------------------------- *)

\* round(10000 * exp(-diff / sqrt(dk))), row dk in 1..4, column diff + 1
ExpTable ==
  << <<10000, 3679, 1353, 498, 183>>,
     <<10000, 4931, 2431, 1199, 591>>,
     <<10000, 5614, 3152, 1769, 993>>,
     <<10000, 6065, 3679, 2231, 1353>> >>

\* the fixed-point representation of 1.0 = exp(0)
One == ExpTable[1][1]

NaN == [nan |-> TRUE, v |-> 0]

Fin(n) == [nan |-> FALSE, v |-> n]

NegInf == [inf |-> TRUE, dot |-> 0, dk |-> 1]

Scaled(n, d) == [inf |-> FALSE, dot |-> n, dk |-> d]

RECURSIVE SumTo(_, _)
SumTo(f, n) == IF n = 0 THEN 0 ELSE f[n] + SumTo(f, n - 1)

RECURSIVE MaxTo(_, _)
MaxTo(f, n) == IF n = 1 THEN f[1]
               ELSE LET m == MaxTo(f, n - 1) IN IF f[n] > m THEN f[n] ELSE m

RECURSIVE ProdTo(_, _)
ProdTo(f, n) == IF n = 0 THEN 1 ELSE f[n] * ProdTo(f, n - 1)

\* a sum of fixed-point numbers: NaN as soon as one term is NaN
FSum(f, n) == IF \E j \in 1..n : f[j].nan THEN NaN
              ELSE Fin(SumTo([j \in 1..n |-> f[j].v], n))

(* ------------------------------ tensors ------------------------------- *)

Indices(shape) ==
  IF Len(shape) = 0 THEN {<<>>}
  ELSE {ix \in [1..Len(shape) -> 1..MaxTo(shape, Len(shape))] :
          \A a \in 1..Len(shape) : ix[a] <= shape[a]}

\* (at @@ <<>> is at, tabulated once instead of recomputed at every use)
Tensor(shape, at) == [shape |-> shape, at |-> at @@ <<>>]

Rank(t) == Len(t.shape)

Numel(shape) == ProdTo(shape, Len(shape))

\* row-major position of an index tuple, from 0
RECURSIVE Linear0(_, _, _)
Linear0(shape, ix, a) ==
  IF a = 0 THEN 0 ELSE Linear0(shape, ix, a - 1) * shape[a] + (ix[a] - 1)

RECURSIVE Pow2(_)
Pow2(n) == IF n = 0 THEN 1 ELSE 2 * Pow2(n - 1)

\* a tensor of zeros and ones generated from a seed: the binary digits of the
\* seed, repeated with the given period over the entries in row-major order
FromSeed(shape, seed, period) ==
  Tensor(shape, [ix \in Indices(shape) |->
    (seed \div Pow2(Linear0(shape, ix, Len(shape)) % period)) % 2])

Ones(shape) == Tensor(shape, [ix \in Indices(shape) |-> 1])

\* the leading (batch) axes of a shape, and its last two axes
Lead(shape) == SubSeq(shape, 1, Len(shape) - 2)

\* torch broadcasting: shapes are aligned on the right, an axis of size 1
\* or a missing axis stretches
BroadcastOK(s1, s2) ==
  \A a \in 1..Len(s1) :
    LET b == a + Len(s2) - Len(s1)
    IN b >= 1 => (s1[a] = s2[b] \/ s1[a] = 1 \/ s2[b] = 1)

BroadcastShape(s1, s2) ==
  LET n == IF Len(s1) > Len(s2) THEN Len(s1) ELSE Len(s2)
      D(s, a) == LET b == a - (n - Len(s)) IN IF b >= 1 THEN s[b] ELSE 1
  IN [a \in 1..n |-> IF D(s1, a) = 1 THEN D(s2, a) ELSE D(s1, a)]

\* the entry of t seen at index ix of a shape t broadcasts to
BAt(t, ix) ==
  t.at[[a \in 1..Rank(t) |->
          IF t.shape[a] = 1 THEN 1 ELSE ix[a + Len(ix) - Rank(t)]]]

\* Tensor.transpose(i, j): the two axes change places
SwapAxes(t, i, j) ==
  LET sw(s) == [a \in 1..Rank(t) |-> IF a = i THEN s[j]
                                    ELSE IF a = j THEN s[i] ELSE s[a]]
  IN Tensor(sw(t.shape), [ix \in Indices(sw(t.shape)) |-> t.at[sw(ix)]])

\* key.transpose(-2, -1)
Transpose(t) == SwapAxes(t, Rank(t) - 1, Rank(t))

\* the index tuple at row-major position n of a shape
Unlinear(shape, n) ==
  [a \in 1..Len(shape) |->
     LET stride == ProdTo([c \in 1..(Len(shape) - a) |-> shape[a + c]],
                          Len(shape) - a)
     IN ((n \div stride) % shape[a]) + 1]

ViewOK(t, shape) == Numel(t.shape) = Numel(shape)

\* Tensor.view(shape) of a contiguous tensor: the same entries in row-major
\* order under the new shape
View(t, shape) ==
  Tensor(shape, [ix \in Indices(shape) |->
    t.at[Unlinear(t.shape, Linear0(shape, ix, Len(shape)))]])

\* Tensor.unsqueeze(1)
Unsqueeze1(t) ==
  LET shape == <<t.shape[1], 1>> \o SubSeq(t.shape, 2, Rank(t))
  IN Tensor(shape, [ix \in Indices(shape) |->
       t.at[<<ix[1]>> \o SubSeq(ix, 3, Len(ix))]])

\* Tensor.repeat_interleave(r, dim=1): every head is repeated r times in place
RepeatInterleave(t, r) ==
  LET shape == [t.shape EXCEPT ![2] = t.shape[2] * r]
  IN Tensor(shape, [ix \in Indices(shape) |->
       t.at[[ix EXCEPT ![2] = ((ix[2] - 1) \div r) + 1]]])

\* mutant: matmul only takes operands whose outer sizes agree
MatmulOKSquare(a, b) ==
  /\ Rank(a) >= 2 /\ Rank(b) >= 2
  /\ a.shape[Rank(a)] = b.shape[Rank(b) - 1]
  /\ a.shape[Rank(a) - 1] = b.shape[Rank(b)]
  /\ BroadcastOK(Lead(a.shape), Lead(b.shape))

MatmulOK(a, b) ==
  /\ Rank(a) >= 2 /\ Rank(b) >= 2
  /\ a.shape[Rank(a)] = b.shape[Rank(b) - 1]
  /\ BroadcastOK(Lead(a.shape), Lead(b.shape))

MatmulShape(a, b) ==
  BroadcastShape(Lead(a.shape), Lead(b.shape))
    \o <<a.shape[Rank(a) - 1], b.shape[Rank(b)]>>

\* torch.matmul on integer tensors: batched over the broadcast leading axes
Matmul(a, b) ==
  LET n == a.shape[Rank(a)]
  IN Tensor(MatmulShape(a, b), [ix \in Indices(MatmulShape(a, b)) |->
       LET lead == SubSeq(ix, 1, Len(ix) - 2)
           i == ix[Len(ix) - 1]
           j == ix[Len(ix)]
       IN SumTo([c \in 1..n |-> BAt(a, lead \o <<i, c>>) * BAt(b, lead \o <<c, j>>)], n)])

\* torch.matmul of fixed-point weights with an integer tensor
FMatmul(w, b) ==
  LET n == w.shape[Rank(w)]
  IN Tensor(MatmulShape(w, b), [ix \in Indices(MatmulShape(w, b)) |->
       LET lead == SubSeq(ix, 1, Len(ix) - 2)
           i == ix[Len(ix) - 1]
           j == ix[Len(ix)]
       IN FSum([c \in 1..n |->
                  LET x == BAt(w, lead \o <<i, c>>)
                  IN IF x.nan THEN NaN ELSE Fin(x.v * BAt(b, lead \o <<c, j>>))], n)])

(* -------------------- ScaledDotProductAttention ------------------------ *)

SetMax(S) == CHOOSE m \in S : \A x \in S : x <= m

NoMask == [none |-> TRUE]

GivenMask(t) == [none |-> FALSE, shape |-> t.shape, at |-> t.at]

\* self.dropout = nn.Dropout(dropout); a new module is in training mode
NewScaledDotProductAttention(dropout) ==
  [kind |-> "SDPA", status |-> "ok", training |-> TRUE, dropout |-> [p |-> dropout]]

\* mutant: the divisor is taken from the full embedding width, the head
\* dimension times the number of heads
ScoresFullWidth(query, key) ==
  LET d_k == Numel(query.shape) \div (query.shape[1] * query.shape[Rank(query) - 1])
      raw == Matmul(query, Transpose(key))
  IN [shape |-> raw.shape,
      at |-> [ix \in DOMAIN raw.at |-> Scaled(raw.at[ix], d_k)]]

\* torch.matmul(query, key.transpose(-2, -1)) / torch.sqrt(torch.tensor(d_k))
Scores(query, key) ==
  LET d_k == query.shape[Rank(query)]
      raw == Matmul(query, Transpose(key))
  IN [shape |-> raw.shape,
      at |-> [ix \in DOMAIN raw.at |-> Scaled(raw.at[ix], d_k)]]

\* mutant: the masked scores are set to 0 instead of -inf
MaskedFillZero(scores, mask) ==
  LET shape == BroadcastShape(scores.shape, mask.shape)
  IN Tensor(shape, [ix \in Indices(shape) |->
       IF BAt(mask, ix) = 0 THEN Scaled(0, BAt(scores, ix).dk)
       ELSE BAt(scores, ix)])

\* mutant: the scores are filled where the mask is 1
MaskedFillInverted(scores, mask) ==
  LET shape == BroadcastShape(scores.shape, mask.shape)
  IN Tensor(shape, [ix \in Indices(shape) |->
       IF BAt(mask, ix) = 1 THEN NegInf ELSE BAt(scores, ix)])

\* scores.masked_fill(mask == 0, float('-inf')): out of place, so scores and
\* mask are broadcast to their common shape
MaskedFill(scores, mask) ==
  LET shape == BroadcastShape(scores.shape, mask.shape)
  IN Tensor(shape, [ix \in Indices(shape) |->
       IF BAt(mask, ix) = 0 THEN NegInf ELSE BAt(scores, ix)])

\* mutant: in a row of -inf alone only the first entry is NaN, the others are 0
SoftmaxMixedEmptyRow(scores) ==
  LET n == Rank(scores)
      K == scores.shape[n]
  IN Tensor(scores.shape, [ix \in Indices(scores.shape) |->
       LET row == [j \in 1..K |-> scores.at[[ix EXCEPT ![n] = j]]]
           fin == {j \in 1..K : ~row[j].inf}
       IN IF fin = {} THEN (IF ix[n] = 1 THEN NaN ELSE Fin(0))
          ELSE LET m == SetMax({row[j].dot : j \in fin})
                   e == [j \in 1..K |->
                           IF row[j].inf THEN 0
                           ELSE ExpTable[row[j].dk][m - row[j].dot + 1]]
               IN Fin((e[ix[n]] * One) \div SumTo(e, K))])

\* F.softmax(scores, dim=-1): exp(s - max) over the sum along the last axis;
\* a row of -inf alone has max -inf and (-inf) - (-inf) = NaN in every entry
Softmax(scores) ==
  LET n == Rank(scores)
      K == scores.shape[n]
  IN Tensor(scores.shape, [ix \in Indices(scores.shape) |->
       LET row == [j \in 1..K |-> scores.at[[ix EXCEPT ![n] = j]]]
           fin == {j \in 1..K : ~row[j].inf}
       IN IF fin = {} THEN NaN
          ELSE LET m == SetMax({row[j].dot : j \in fin})
                   e == [j \in 1..K |->
                           IF row[j].inf THEN 0
                           ELSE ExpTable[row[j].dk][m - row[j].dot + 1]]
               IN Fin((e[ix[n]] * One) \div SumTo(e, K))])

\* the entries a dropout draw zeroes: none, all, or every second one
DropPatterns == {"none", "all", "odd"}

Dropped(pattern, shape, ix) ==
  CASE pattern = "none" -> FALSE
    [] pattern = "all" -> TRUE
    [] pattern = "odd" -> Linear0(shape, ix, Len(shape)) % 2 = 1

\* mutant: dropout scales the weights in eval mode too
DropoutInEval(dropout, training, w, pattern) ==
  IF dropout.p = 0 THEN w
  ELSE Tensor(w.shape, [ix \in Indices(w.shape) |->
         IF w.at[ix].nan THEN NaN
         ELSE IF Dropped(pattern, w.shape, ix) THEN Fin(0)
         ELSE Fin((w.at[ix].v * 10) \div (10 - dropout.p))])

\* mutant: dropout acts in eval mode and is the identity in training mode
DropoutModeInverted(dropout, training, w, pattern) ==
  IF training \/ dropout.p = 0 THEN w
  ELSE Tensor(w.shape, [ix \in Indices(w.shape) |->
         IF w.at[ix].nan THEN NaN
         ELSE IF Dropped(pattern, w.shape, ix) THEN Fin(0)
         ELSE Fin((w.at[ix].v * 10) \div (10 - dropout.p))])

\* mutant: in training mode the kept weights are scaled by 1 / (0.9 - p), also
\* with p = 0
DropoutScalesAtZero(dropout, training, w, pattern) ==
  IF ~training THEN w
  ELSE Tensor(w.shape, [ix \in Indices(w.shape) |->
         IF w.at[ix].nan THEN NaN
         ELSE IF Dropped(pattern, w.shape, ix) THEN Fin(0)
         ELSE Fin((w.at[ix].v * 10) \div (9 - dropout.p))])

\* nn.Dropout(p): the identity in eval mode or with p = 0; in training mode a
\* drawn entry becomes 0 and the others are scaled by 1 / (1 - p)
Dropout(dropout, training, w, pattern) ==
  IF ~training \/ dropout.p = 0 THEN w
  ELSE Tensor(w.shape, [ix \in Indices(w.shape) |->
         IF w.at[ix].nan THEN NaN
         ELSE IF Dropped(pattern, w.shape, ix) THEN Fin(0)
         ELSE Fin((w.at[ix].v * 10) \div (10 - dropout.p))])

\* mutant: the mask is applied to the softmax result instead of the scores; a
\* filled weight is -inf, held as the non-finite entry
SDPAForwardMaskAfterSoftmax(self, query, key, value, mask, pattern) ==
  IF ~MatmulOK(query, Transpose(key)) THEN [status |-> "RuntimeError"]
  ELSE
    LET scores == Scores(query, key)
    IN IF ~mask.none /\ ~BroadcastOK(scores.shape, mask.shape)
       THEN [status |-> "RuntimeError"]
       ELSE
         LET soft == Softmax(scores)
             shape == IF mask.none THEN soft.shape
                      ELSE BroadcastShape(soft.shape, mask.shape)
             filled == IF mask.none THEN soft
                       ELSE Tensor(shape, [ix \in Indices(shape) |->
                              IF BAt(mask, ix) = 0 THEN NaN ELSE BAt(soft, ix)])
             attention_weights ==
               Dropout(self.dropout, self.training, filled, pattern)
         IN IF ~MatmulOK(attention_weights, value) THEN [status |-> "RuntimeError"]
            ELSE [status |-> "ok",
                  output |-> FMatmul(attention_weights, value),
                  attention_weights |-> attention_weights]

\* mutant: the weights returned are those before the dropout
SDPAForwardReturnsSoftmax(self, query, key, value, mask, pattern) ==
  IF ~MatmulOK(query, Transpose(key)) THEN [status |-> "RuntimeError"]
  ELSE
    LET scores == Scores(query, key)
    IN IF ~mask.none /\ ~BroadcastOK(scores.shape, mask.shape)
       THEN [status |-> "RuntimeError"]
       ELSE
         LET masked == IF mask.none THEN scores ELSE MaskedFill(scores, mask)
             attention_weights ==
               Dropout(self.dropout, self.training, Softmax(masked), pattern)
         IN IF ~MatmulOK(attention_weights, value) THEN [status |-> "RuntimeError"]
            ELSE [status |-> "ok",
                  output |-> FMatmul(attention_weights, value),
                  attention_weights |-> Softmax(masked)]

\* ScaledDotProductAttention.forward(query, key, value, mask)
SDPAForward(self, query, key, value, mask, pattern) ==
  IF ~MatmulOK(query, Transpose(key)) THEN [status |-> "RuntimeError"]
  ELSE
    LET scores == Scores(query, key)
    IN IF ~mask.none /\ ~BroadcastOK(scores.shape, mask.shape)
       THEN [status |-> "RuntimeError"]
       ELSE
         LET masked == IF mask.none THEN scores ELSE MaskedFill(scores, mask)
             attention_weights ==
               Dropout(self.dropout, self.training, Softmax(masked), pattern)
         IN IF ~MatmulOK(attention_weights, value) THEN [status |-> "RuntimeError"]
            ELSE [status |-> "ok",
                  output |-> FMatmul(attention_weights, value),
                  attention_weights |-> attention_weights]

(* ----------------------------- nn.Linear ------------------------------ *)

NoBias == [none |-> TRUE]

\* nn.Linear(in_features, out_features, bias): weight of shape (out, in), an
\* identity-like ("eye") or reversal-like ("rev") matrix, and a zero bias
NewLinear(in_features, out_features, bias, choice) ==
  [in_features |-> in_features,
   out_features |-> out_features,
   weight |-> Tensor(<<out_features, in_features>>,
                [ix \in Indices(<<out_features, in_features>>) |->
                   IF choice = "eye"
                   THEN (IF ix[1] = ix[2] THEN 1 ELSE 0)
                   ELSE (IF ix[1] + ix[2] = in_features + 1 THEN 1 ELSE 0)]),
   bias |-> IF bias
            THEN [none |-> FALSE, shape |-> <<out_features>>,
                  at |-> [ix \in Indices(<<out_features>>) |-> 0]]
            ELSE NoBias]

LinearOK(layer, x) == x.shape[Rank(x)] = layer.in_features

LinearShape(layer, x) == [x.shape EXCEPT ![Rank(x)] = layer.out_features]

\* layer(x) on an integer tensor: x @ weight^T + bias along the last axis
LinearApply(layer, x) ==
  LET n == Rank(x)
  IN Tensor(LinearShape(layer, x), [ix \in Indices(LinearShape(layer, x)) |->
       SumTo([c \in 1..layer.in_features |->
                x.at[[ix EXCEPT ![n] = c]] * layer.weight.at[<<ix[n], c>>]],
             layer.in_features)
         + (IF layer.bias.none THEN 0 ELSE layer.bias.at[<<ix[n]>>])])

\* layer(x) on a fixed-point tensor
FLinearApply(layer, x) ==
  LET n == Rank(x)
  IN Tensor(LinearShape(layer, x), [ix \in Indices(LinearShape(layer, x)) |->
       LET sum == FSum([c \in 1..layer.in_features |->
                          LET e == x.at[[ix EXCEPT ![n] = c]]
                          IN IF e.nan THEN NaN
                             ELSE Fin(e.v * layer.weight.at[<<ix[n], c>>])],
                       layer.in_features)
       IN IF sum.nan THEN NaN
          ELSE Fin(sum.v + (IF layer.bias.none THEN 0
                            ELSE One * layer.bias.at[<<ix[n]>>]))])

(* --------------------------- construction ----------------------------- *)

\* __init__ raised: super().__init__() has run, no attribute has been assigned
Raised(kind, error, args) ==
  [kind |-> kind, status |-> error, training |-> TRUE, args |-> args,
   attrs |-> <<>>]

\* __init__ returned: attrs are the attributes it assigned
Built(kind, args, attrs) ==
  [kind |-> kind, status |-> "ok", training |-> TRUE, args |-> args,
   attrs |-> attrs]

HasAttr(self, name) == name \in DOMAIN self.attrs

\* mutant: the assertion runs after the dimension attributes are assigned
NewMultiHeadAttentionLateAssert(embed_dim, num_heads, dropout, w) ==
  LET args == [embed_dim |-> embed_dim, num_heads |-> num_heads,
               dropout |-> dropout]
  IN IF num_heads = 0 THEN Raised("MHA", "ZeroDivisionError", args)
     ELSE IF embed_dim % num_heads # 0
     THEN [Raised("MHA", "AssertionError", args) EXCEPT
             !.attrs = [embed_dim |-> embed_dim, num_heads |-> num_heads,
                        head_dim |-> embed_dim \div num_heads]]
     ELSE Built("MHA", args,
            [embed_dim |-> embed_dim,
             num_heads |-> num_heads,
             head_dim |-> embed_dim \div num_heads,
             q_proj |-> NewLinear(embed_dim, embed_dim, TRUE, w[1]),
             k_proj |-> NewLinear(embed_dim, embed_dim, TRUE, w[2]),
             v_proj |-> NewLinear(embed_dim, embed_dim, TRUE, w[3]),
             out_proj |-> NewLinear(embed_dim, embed_dim, TRUE, w[4]),
             attention |-> NewScaledDotProductAttention(dropout)])

\* MultiHeadAttention.__init__(embed_dim, num_heads, dropout)
NewMultiHeadAttention(embed_dim, num_heads, dropout, w) ==
  LET args == [embed_dim |-> embed_dim, num_heads |-> num_heads,
               dropout |-> dropout]
  IN IF num_heads = 0 THEN Raised("MHA", "ZeroDivisionError", args)
     ELSE IF embed_dim % num_heads # 0 THEN Raised("MHA", "AssertionError", args)
     ELSE Built("MHA", args,
            [embed_dim |-> embed_dim,
             num_heads |-> num_heads,
             head_dim |-> embed_dim \div num_heads,
             q_proj |-> NewLinear(embed_dim, embed_dim, TRUE, w[1]),
             k_proj |-> NewLinear(embed_dim, embed_dim, TRUE, w[2]),
             v_proj |-> NewLinear(embed_dim, embed_dim, TRUE, w[3]),
             out_proj |-> NewLinear(embed_dim, embed_dim, TRUE, w[4]),
             attention |-> NewScaledDotProductAttention(dropout)])

\* mutant: k_proj and v_proj keep the full embedding width
NewMultiQueryAttentionFullWidthKV(embed_dim, num_query_heads, dropout, w) ==
  LET args == [embed_dim |-> embed_dim, num_query_heads |-> num_query_heads,
               dropout |-> dropout]
      head_dim == embed_dim \div num_query_heads
  IN IF num_query_heads = 0 THEN Raised("MQA", "ZeroDivisionError", args)
     ELSE IF embed_dim % num_query_heads # 0
     THEN Raised("MQA", "AssertionError", args)
     ELSE Built("MQA", args,
            [embed_dim |-> embed_dim,
             num_query_heads |-> num_query_heads,
             head_dim |-> head_dim,
             q_proj |-> NewLinear(embed_dim, embed_dim, TRUE, w[1]),
             k_proj |-> NewLinear(embed_dim, embed_dim, TRUE, w[2]),
             v_proj |-> NewLinear(embed_dim, embed_dim, TRUE, w[3]),
             out_proj |-> NewLinear(embed_dim, embed_dim, TRUE, w[4]),
             attention |-> NewScaledDotProductAttention(dropout)])

\* MultiQueryAttention.__init__(embed_dim, num_query_heads, dropout)
NewMultiQueryAttention(embed_dim, num_query_heads, dropout, w) ==
  LET args == [embed_dim |-> embed_dim, num_query_heads |-> num_query_heads,
               dropout |-> dropout]
      head_dim == embed_dim \div num_query_heads
  IN IF num_query_heads = 0 THEN Raised("MQA", "ZeroDivisionError", args)
     ELSE IF embed_dim % num_query_heads # 0
     THEN Raised("MQA", "AssertionError", args)
     ELSE Built("MQA", args,
            [embed_dim |-> embed_dim,
             num_query_heads |-> num_query_heads,
             head_dim |-> head_dim,
             q_proj |-> NewLinear(embed_dim, embed_dim, TRUE, w[1]),
             k_proj |-> NewLinear(embed_dim, head_dim, TRUE, w[2]),
             v_proj |-> NewLinear(embed_dim, head_dim, TRUE, w[3]),
             out_proj |-> NewLinear(embed_dim, embed_dim, TRUE, w[4]),
             attention |-> NewScaledDotProductAttention(dropout)])

\* mutant: the second assertion is missing
NewGroupedQueryAttentionOneAssert(embed_dim, num_query_heads, num_groups, dropout, w) ==
  LET args == [embed_dim |-> embed_dim, num_query_heads |-> num_query_heads,
               num_groups |-> num_groups, dropout |-> dropout]
      query_head_dim == embed_dim \div num_query_heads
      kv_head_dim == query_head_dim * num_groups
  IN IF num_query_heads = 0 THEN Raised("GQA", "ZeroDivisionError", args)
     ELSE IF embed_dim % num_query_heads # 0
     THEN Raised("GQA", "AssertionError", args)
     ELSE IF num_groups = 0 THEN Raised("GQA", "ZeroDivisionError", args)
     ELSE Built("GQA", args,
            [embed_dim |-> embed_dim,
             num_query_heads |-> num_query_heads,
             query_head_dim |-> query_head_dim,
             num_groups |-> num_groups,
             heads_per_group |-> num_query_heads \div num_groups,
             kv_head_dim |-> kv_head_dim,
             q_proj |-> NewLinear(embed_dim, embed_dim, TRUE, w[1]),
             k_proj |-> NewLinear(embed_dim, kv_head_dim, TRUE, w[2]),
             v_proj |-> NewLinear(embed_dim, kv_head_dim, TRUE, w[3]),
             out_proj |-> NewLinear(embed_dim, embed_dim, TRUE, w[4]),
             attn |-> NewScaledDotProductAttention(dropout)])

\* mutant: the second assertion is embed_dim % num_groups == 0
NewGroupedQueryAttentionEmbedByGroups(embed_dim, num_query_heads, num_groups, dropout, w) ==
  LET args == [embed_dim |-> embed_dim, num_query_heads |-> num_query_heads,
               num_groups |-> num_groups, dropout |-> dropout]
      query_head_dim == embed_dim \div num_query_heads
      kv_head_dim == query_head_dim * num_groups
  IN IF num_query_heads = 0 THEN Raised("GQA", "ZeroDivisionError", args)
     ELSE IF embed_dim % num_query_heads # 0
     THEN Raised("GQA", "AssertionError", args)
     ELSE IF num_groups = 0 THEN Raised("GQA", "ZeroDivisionError", args)
     ELSE IF embed_dim % num_groups # 0
     THEN Raised("GQA", "AssertionError", args)
     ELSE Built("GQA", args,
            [embed_dim |-> embed_dim,
             num_query_heads |-> num_query_heads,
             query_head_dim |-> query_head_dim,
             num_groups |-> num_groups,
             heads_per_group |-> num_query_heads \div num_groups,
             kv_head_dim |-> kv_head_dim,
             q_proj |-> NewLinear(embed_dim, embed_dim, TRUE, w[1]),
             k_proj |-> NewLinear(embed_dim, kv_head_dim, TRUE, w[2]),
             v_proj |-> NewLinear(embed_dim, kv_head_dim, TRUE, w[3]),
             out_proj |-> NewLinear(embed_dim, embed_dim, TRUE, w[4]),
             attn |-> NewScaledDotProductAttention(dropout)])

\* GroupedQueryAttention.__init__(embed_dim, num_query_heads, num_groups, dropout)
NewGroupedQueryAttention(embed_dim, num_query_heads, num_groups, dropout, w) ==
  LET args == [embed_dim |-> embed_dim, num_query_heads |-> num_query_heads,
               num_groups |-> num_groups, dropout |-> dropout]
      query_head_dim == embed_dim \div num_query_heads
      kv_head_dim == query_head_dim * num_groups
  IN IF num_query_heads = 0 THEN Raised("GQA", "ZeroDivisionError", args)
     ELSE IF embed_dim % num_query_heads # 0
     THEN Raised("GQA", "AssertionError", args)
     ELSE IF num_groups = 0 THEN Raised("GQA", "ZeroDivisionError", args)
     ELSE IF num_query_heads % num_groups # 0
     THEN Raised("GQA", "AssertionError", args)
     ELSE Built("GQA", args,
            [embed_dim |-> embed_dim,
             num_query_heads |-> num_query_heads,
             query_head_dim |-> query_head_dim,
             num_groups |-> num_groups,
             heads_per_group |-> num_query_heads \div num_groups,
             kv_head_dim |-> kv_head_dim,
             q_proj |-> NewLinear(embed_dim, embed_dim, TRUE, w[1]),
             k_proj |-> NewLinear(embed_dim, kv_head_dim, TRUE, w[2]),
             v_proj |-> NewLinear(embed_dim, kv_head_dim, TRUE, w[3]),
             out_proj |-> NewLinear(embed_dim, embed_dim, TRUE, w[4]),
             attn |-> NewScaledDotProductAttention(dropout)])

\* mutant: kv_compress keeps the embedding width
NewMultiHeadLatentAttentionNoCompression(embed_dim, num_heads, latent_dim, dropout, w) ==
  LET args == [embed_dim |-> embed_dim, num_heads |-> num_heads,
               latent_dim |-> latent_dim, dropout |-> dropout]
  IN IF num_heads = 0 THEN Raised("MLA", "ZeroDivisionError", args)
     ELSE IF embed_dim % num_heads # 0 THEN Raised("MLA", "AssertionError", args)
     ELSE Built("MLA", args,
            [embed_dim |-> embed_dim,
             num_heads |-> num_heads,
             head_dim |-> embed_dim \div num_heads,
             latent_dim |-> latent_dim,
             q_proj |-> NewLinear(embed_dim, embed_dim, FALSE, w[1]),
             kv_compress |-> NewLinear(embed_dim, embed_dim, FALSE, "eye"),
             k_decompress |-> NewLinear(latent_dim, embed_dim, FALSE, w[2]),
             v_decompress |-> NewLinear(latent_dim, embed_dim, FALSE, w[3]),
             out_proj |-> NewLinear(embed_dim, embed_dim, FALSE, w[4]),
             dropout |-> [p |-> dropout]])

\* MultiHeadLatentAttention.__init__(embed_dim, num_heads, latent_dim, dropout)
NewMultiHeadLatentAttention(embed_dim, num_heads, latent_dim, dropout, w) ==
  LET args == [embed_dim |-> embed_dim, num_heads |-> num_heads,
               latent_dim |-> latent_dim, dropout |-> dropout]
  IN IF num_heads = 0 THEN Raised("MLA", "ZeroDivisionError", args)
     ELSE IF embed_dim % num_heads # 0 THEN Raised("MLA", "AssertionError", args)
     ELSE Built("MLA", args,
            [embed_dim |-> embed_dim,
             num_heads |-> num_heads,
             head_dim |-> embed_dim \div num_heads,
             latent_dim |-> latent_dim,
             q_proj |-> NewLinear(embed_dim, embed_dim, FALSE, w[1]),
             kv_compress |-> NewLinear(embed_dim, latent_dim, FALSE, "eye"),
             k_decompress |-> NewLinear(latent_dim, embed_dim, FALSE, w[2]),
             v_decompress |-> NewLinear(latent_dim, embed_dim, FALSE, w[3]),
             out_proj |-> NewLinear(embed_dim, embed_dim, FALSE, w[4]),
             dropout |-> [p |-> dropout]])

(* ------------------------------ forward ------------------------------- *)

\* mutant: the heads are not moved in front of the sequence axis
SplitHeadsNoTranspose(t, batch_size, seq_len, heads, head_dim) ==
  View(t, <<batch_size, seq_len, heads, head_dim>>)

\* x.view(batch_size, seq_len, heads, head_dim).transpose(1, 2)
SplitHeads(t, batch_size, seq_len, heads, head_dim) ==
  SwapAxes(View(t, <<batch_size, seq_len, heads, head_dim>>), 2, 3)

\* mutant: the heads are merged without being moved behind the sequence axis
MergeHeadsNoTranspose(t, batch_size, seq_len, embed_dim) ==
  View(t, <<batch_size, seq_len, embed_dim>>)

\* attn_output.transpose(1, 2).contiguous().view(batch_size, seq_len, embed_dim)
MergeHeads(t, batch_size, seq_len, embed_dim) ==
  View(SwapAxes(t, 2, 3), <<batch_size, seq_len, embed_dim>>)

\* the child attention module in the mode of its parent
Child(self, name) == [self.attrs[name] EXCEPT !.training = self.training]

\* MultiHeadAttention.forward(x, mask); q, k, v are the tensors handed to
\* self.attention, attn_output what it returns for the heads
MHAForward(self, x, mask, pattern) ==
  LET a == self.attrs
      batch_size == x.shape[1]
      seq_len == x.shape[2]
  IN IF Rank(x) # 3 THEN [status |-> "ValueError"]
     ELSE IF ~LinearOK(a.q_proj, x) THEN [status |-> "RuntimeError"]
     ELSE IF ~ViewOK(LinearApply(a.q_proj, x),
                     <<batch_size, seq_len, a.num_heads, a.head_dim>>)
     THEN [status |-> "RuntimeError"]
     ELSE
       LET q == SplitHeads(LinearApply(a.q_proj, x), batch_size, seq_len,
                           a.num_heads, a.head_dim)
           k == SplitHeads(LinearApply(a.q_proj, x), batch_size, seq_len,
                           a.num_heads, a.head_dim)
           v == SplitHeads(LinearApply(a.q_proj, x), batch_size, seq_len,
                           a.num_heads, a.head_dim)
           r == SDPAForward(Child(self, "attention"), q, k, v, mask, pattern)
       IN IF r.status # "ok" THEN [status |-> r.status]
          ELSE IF ~ViewOK(r.output, <<batch_size, seq_len, a.embed_dim>>)
          THEN [status |-> "RuntimeError"]
          ELSE [status |-> "ok",
                output |-> FLinearApply(a.out_proj,
                             MergeHeads(r.output, batch_size, seq_len, a.embed_dim)),
                attn_weights |-> r.attention_weights,
                attn_output |-> r.output,
                q |-> q, k |-> k, v |-> v]

\* MultiQueryAttention.forward(x, mask); attn_output is what self.attention
\* returns for the heads, before they are merged
MQAForward(self, x, mask, pattern) ==
  LET a == self.attrs
      batch_size == x.shape[1]
      seq_len == x.shape[2]
  IN IF Rank(x) # 3 THEN [status |-> "ValueError"]
     ELSE IF ~LinearOK(a.q_proj, x) THEN [status |-> "RuntimeError"]
     ELSE IF ~ViewOK(LinearApply(a.q_proj, x),
                     <<batch_size, seq_len, a.num_query_heads, a.head_dim>>)
     THEN [status |-> "RuntimeError"]
     ELSE
       LET q == SplitHeads(LinearApply(a.q_proj, x), batch_size, seq_len,
                           a.num_query_heads, a.head_dim)
           k == Unsqueeze1(LinearApply(a.k_proj, x))
           v == Unsqueeze1(LinearApply(a.v_proj, x))
           r == SDPAForward(Child(self, "attention"), q, k, v, mask, pattern)
       IN IF r.status # "ok" THEN [status |-> r.status]
          ELSE IF ~ViewOK(r.output, <<batch_size, seq_len, a.embed_dim>>)
          THEN [status |-> "RuntimeError"]
          ELSE [status |-> "ok",
                output |-> FLinearApply(a.out_proj,
                             MergeHeads(r.output, batch_size, seq_len, a.embed_dim)),
                attn_weights |-> r.attention_weights,
                attn_output |-> r.output,
                q |-> q, k |-> k, v |-> v]

\* GroupedQueryAttention.forward(x, mask): self.num_kv_heads is read, an
\* attribute __init__ never assigns, and nn.Module.__getattr__ raises
GQAForward(self, x, mask, pattern) ==
  LET a == self.attrs
      batch_size == x.shape[1]
      seq_length == x.shape[2]
  IN IF Rank(x) # 3 THEN [status |-> "ValueError"]
     ELSE IF ~LinearOK(a.q_proj, x) THEN [status |-> "RuntimeError"]
     ELSE IF ~ViewOK(LinearApply(a.q_proj, x),
                     <<batch_size, seq_length, a.num_query_heads, a.query_head_dim>>)
     THEN [status |-> "RuntimeError"]
     ELSE IF ~HasAttr(self, "num_kv_heads") THEN [status |-> "AttributeError"]
     ELSE IF ~ViewOK(LinearApply(a.k_proj, x),
                     <<batch_size, seq_length, a.num_kv_heads, a.kv_head_dim>>)
     THEN [status |-> "RuntimeError"]
     ELSE
       LET q == SplitHeads(LinearApply(a.q_proj, x), batch_size, seq_length,
                           a.num_query_heads, a.query_head_dim)
           k0 == SplitHeads(LinearApply(a.k_proj, x), batch_size, seq_length,
                            a.num_kv_heads, a.kv_head_dim)
           v0 == SplitHeads(LinearApply(a.v_proj, x), batch_size, seq_length,
                            a.num_kv_heads, a.kv_head_dim)
           repeat == a.num_query_heads # a.num_kv_heads
           k == IF repeat
                THEN RepeatInterleave(k0, a.num_query_heads \div a.num_kv_heads)
                ELSE k0
           v == IF repeat
                THEN RepeatInterleave(v0, a.num_query_heads \div a.num_kv_heads)
                ELSE v0
           r == SDPAForward(Child(self, "attn"), q, k, v, mask, pattern)
       IN IF r.status # "ok" THEN [status |-> r.status]
          ELSE IF ~ViewOK(r.output, <<batch_size, seq_length, a.embed_dim>>)
          THEN [status |-> "RuntimeError"]
          ELSE [status |-> "ok",
                output |-> FLinearApply(a.out_proj,
                             MergeHeads(r.output, batch_size, seq_length, a.embed_dim)),
                attn_weights |-> r.attention_weights,
                attn_output |-> r.output,
                q |-> q, k |-> k, v |-> v]

\* mutant: K is projected from x, not from the latent
MLAForwardKeyFromInput(self, x, mask, pattern) ==
  LET a == self.attrs
      batch_size == x.shape[1]
      seq_len == x.shape[2]
  IN IF Rank(x) # 3 THEN [status |-> "ValueError"]
     ELSE IF ~LinearOK(a.kv_compress, x) \/ ~LinearOK(a.q_proj, x)
     THEN [status |-> "RuntimeError"]
     ELSE
       LET latent == LinearApply(a.kv_compress, x)
       IN IF \/ ~LinearOK(a.k_decompress, latent)
             \/ ~LinearOK(a.v_decompress, latent)
             \/ ~ViewOK(LinearApply(a.q_proj, x),
                        <<batch_size, seq_len, a.num_heads, a.head_dim>>)
          THEN [status |-> "RuntimeError"]
          ELSE
            LET Q == SplitHeads(LinearApply(a.q_proj, x), batch_size, seq_len,
                                a.num_heads, a.head_dim)
                K == SplitHeads(LinearApply(a.q_proj, x), batch_size,
                                seq_len, a.num_heads, a.head_dim)
                V == SplitHeads(LinearApply(a.v_decompress, latent), batch_size,
                                seq_len, a.num_heads, a.head_dim)
                raw == Matmul(Q, Transpose(K))
                scaled == [shape |-> raw.shape,
                           at |-> [ix \in DOMAIN raw.at |->
                                     Scaled(raw.at[ix], a.head_dim)]]
            IN IF ~mask.none /\ ~BroadcastOK(scaled.shape, mask.shape)
               THEN [status |-> "RuntimeError"]
               ELSE
                 LET attn_scores == IF mask.none THEN scaled
                                    ELSE MaskedFill(scaled, mask)
                     attn_weights == Dropout(a.dropout, self.training,
                                             Softmax(attn_scores), pattern)
                 IN IF ~MatmulOK(attn_weights, V) THEN [status |-> "RuntimeError"]
                    ELSE IF ~ViewOK(FMatmul(attn_weights, V),
                                    <<batch_size, seq_len, a.embed_dim>>)
                    THEN [status |-> "RuntimeError"]
                    ELSE [status |-> "ok",
                          output |-> FLinearApply(a.out_proj,
                                       MergeHeads(FMatmul(attn_weights, V),
                                                  batch_size, seq_len, a.embed_dim)),
                          latent |-> latent, Q |-> Q, K |-> K, V |-> V,
                          attn_scores |-> attn_scores,
                          attn_weights |-> attn_weights,
                          out |-> FMatmul(attn_weights, V)]

\* mutant: the scale is 1 / sqrt(embed_dim)
MLAForwardScaleByEmbedDim(self, x, mask, pattern) ==
  LET a == self.attrs
      batch_size == x.shape[1]
      seq_len == x.shape[2]
  IN IF Rank(x) # 3 THEN [status |-> "ValueError"]
     ELSE IF ~LinearOK(a.kv_compress, x) \/ ~LinearOK(a.q_proj, x)
     THEN [status |-> "RuntimeError"]
     ELSE
       LET latent == LinearApply(a.kv_compress, x)
       IN IF \/ ~LinearOK(a.k_decompress, latent)
             \/ ~LinearOK(a.v_decompress, latent)
             \/ ~ViewOK(LinearApply(a.q_proj, x),
                        <<batch_size, seq_len, a.num_heads, a.head_dim>>)
          THEN [status |-> "RuntimeError"]
          ELSE
            LET Q == SplitHeads(LinearApply(a.q_proj, x), batch_size, seq_len,
                                a.num_heads, a.head_dim)
                K == SplitHeads(LinearApply(a.k_decompress, latent), batch_size,
                                seq_len, a.num_heads, a.head_dim)
                V == SplitHeads(LinearApply(a.v_decompress, latent), batch_size,
                                seq_len, a.num_heads, a.head_dim)
                raw == Matmul(Q, Transpose(K))
                scaled == [shape |-> raw.shape,
                           at |-> [ix \in DOMAIN raw.at |->
                                     Scaled(raw.at[ix], a.embed_dim)]]
            IN IF ~mask.none /\ ~BroadcastOK(scaled.shape, mask.shape)
               THEN [status |-> "RuntimeError"]
               ELSE
                 LET attn_scores == IF mask.none THEN scaled
                                    ELSE MaskedFill(scaled, mask)
                     attn_weights == Dropout(a.dropout, self.training,
                                             Softmax(attn_scores), pattern)
                 IN IF ~MatmulOK(attn_weights, V) THEN [status |-> "RuntimeError"]
                    ELSE IF ~ViewOK(FMatmul(attn_weights, V),
                                    <<batch_size, seq_len, a.embed_dim>>)
                    THEN [status |-> "RuntimeError"]
                    ELSE [status |-> "ok",
                          output |-> FLinearApply(a.out_proj,
                                       MergeHeads(FMatmul(attn_weights, V),
                                                  batch_size, seq_len, a.embed_dim)),
                          latent |-> latent, Q |-> Q, K |-> K, V |-> V,
                          attn_scores |-> attn_scores,
                          attn_weights |-> attn_weights,
                          out |-> FMatmul(attn_weights, V)]

\* MultiHeadLatentAttention.forward(x, mask): returns the output alone;
\* latent, Q, K, V, attn_scores (after the mask), attn_weights and out (the
\* heads before they are merged) are its local tensors
MLAForward(self, x, mask, pattern) ==
  LET a == self.attrs
      batch_size == x.shape[1]
      seq_len == x.shape[2]
  IN IF Rank(x) # 3 THEN [status |-> "ValueError"]
     ELSE IF ~LinearOK(a.kv_compress, x) \/ ~LinearOK(a.q_proj, x)
     THEN [status |-> "RuntimeError"]
     ELSE
       LET latent == LinearApply(a.kv_compress, x)
       IN IF \/ ~LinearOK(a.k_decompress, latent)
             \/ ~LinearOK(a.v_decompress, latent)
             \/ ~ViewOK(LinearApply(a.q_proj, x),
                        <<batch_size, seq_len, a.num_heads, a.head_dim>>)
          THEN [status |-> "RuntimeError"]
          ELSE
            LET Q == SplitHeads(LinearApply(a.q_proj, x), batch_size, seq_len,
                                a.num_heads, a.head_dim)
                K == SplitHeads(LinearApply(a.k_decompress, latent), batch_size,
                                seq_len, a.num_heads, a.head_dim)
                V == SplitHeads(LinearApply(a.v_decompress, latent), batch_size,
                                seq_len, a.num_heads, a.head_dim)
                raw == Matmul(Q, Transpose(K))
                scaled == [shape |-> raw.shape,
                           at |-> [ix \in DOMAIN raw.at |->
                                     Scaled(raw.at[ix], a.head_dim)]]
            IN IF ~mask.none /\ ~BroadcastOK(scaled.shape, mask.shape)
               THEN [status |-> "RuntimeError"]
               ELSE
                 LET attn_scores == IF mask.none THEN scaled
                                    ELSE MaskedFill(scaled, mask)
                     attn_weights == Dropout(a.dropout, self.training,
                                             Softmax(attn_scores), pattern)
                 IN IF ~MatmulOK(attn_weights, V) THEN [status |-> "RuntimeError"]
                    ELSE
                      LET out == FMatmul(attn_weights, V)
                      IN IF ~ViewOK(out, <<batch_size, seq_len, a.embed_dim>>)
                         THEN [status |-> "RuntimeError"]
                         ELSE [status |-> "ok",
                               output |-> FLinearApply(a.out_proj,
                                            MergeHeads(out, batch_size, seq_len,
                                                       a.embed_dim)),
                               latent |-> latent, Q |-> Q, K |-> K, V |-> V,
                               attn_scores |-> attn_scores,
                               attn_weights |-> attn_weights,
                               out |-> out]

(* ------------------------------- state -------------------------------- *)

NoInst == [kind |-> "none"]

NoCall == [kind |-> "none"]

Init ==
  /\ inst = NoInst
  /\ call = NoCall
  /\ kept = NoCall

\* attn = ScaledDotProductAttention(dropout)
NewSDPA ==
  /\ inst = NoInst
  /\ \E p \in DropoutTenths : inst' = NewScaledDotProductAttention(p)
  /\ UNCHANGED <<call, kept>>

\* nn.Module.train(mode): the flag of the module and of its child modules
SetTraining(m, mode) ==
  CASE m.kind \in {"MHA", "MQA"} ->
         [m EXCEPT !.training = mode, !.attrs.attention.training = mode]
    [] m.kind = "GQA" ->
         [m EXCEPT !.training = mode, !.attrs.attn.training = mode]
    [] OTHER -> [m EXCEPT !.training = mode]

\* module.train()
Train ==
  /\ inst.kind # "none" /\ inst.status = "ok"
  /\ call = NoCall
  /\ ~inst.training
  /\ inst' = SetTraining(inst, TRUE)
  /\ UNCHANGED <<call, kept>>

\* module.eval()
Eval ==
  /\ inst.kind # "none" /\ inst.status = "ok"
  /\ call = NoCall
  /\ inst.training
  /\ inst' = SetTraining(inst, FALSE)
  /\ UNCHANGED <<call, kept>>

\* the patterns a dropout draw can take in the module's present mode
Draws(m) == IF m.training /\ m.dropout.p > 0 THEN DropPatterns ELSE {"none"}

\* generated masks of shape (query_len, key_len), no mask, and masks with two
\* keys or two queries too many
Masks(qlen, klen) ==
  {NoMask}
    \cup {GivenMask(FromSeed(<<qlen, klen>>, s, 4)) : s \in MaskSeeds}
    \cup {GivenMask(FromSeed(<<qlen, klen + 2>>, 13, 4)),
          GivenMask(FromSeed(<<qlen + 2, klen>>, 13, 4))}

\* mutant: forward leaves the module in eval mode
CallSDPAThenEval ==
  /\ inst.kind = "SDPA"
  /\ call = NoCall
  /\ \E b \in 1..MaxBatch, qlen \in 1..MaxSeq, klen \in 1..MaxSeq,
        d \in FeatureDims, d_v \in FeatureDims :
       \E qs \in QSeeds, ks \in KSeeds, vs \in VSeeds,
          mask \in Masks(qlen, klen), pattern \in Draws(inst) :
         LET query == FromSeed(<<b, qlen, d>>, qs, 4)
             key == FromSeed(<<b, klen, d>>, ks, 4)
             value == FromSeed(<<b, klen, d_v>>, vs, 4)
         IN call' = [kind |-> "SDPA", query |-> query, key |-> key,
                     value |-> value, mask |-> mask, pattern |-> pattern,
                     result |-> SDPAForward(inst, query, key, value, mask, pattern)]
  /\ inst' = [inst EXCEPT !.training = FALSE]
  /\ UNCHANGED kept

\* output, attention_weights = attn(query, key, value, mask)
CallSDPA ==
  /\ inst.kind = "SDPA"
  /\ call = NoCall
  /\ \E b \in 1..MaxBatch, qlen \in 1..MaxSeq, klen \in 1..MaxSeq,
        d \in FeatureDims, d_v \in FeatureDims :
       \E qs \in QSeeds, ks \in KSeeds, vs \in VSeeds,
          mask \in Masks(qlen, klen), pattern \in Draws(inst) :
         LET query == FromSeed(<<b, qlen, d>>, qs, 4)
             key == FromSeed(<<b, klen, d>>, ks, 4)
             value == FromSeed(<<b, klen, d_v>>, vs, 4)
         IN call' = [kind |-> "SDPA", query |-> query, key |-> key,
                     value |-> value, mask |-> mask, pattern |-> pattern,
                     result |-> SDPAForward(inst, query, key, value, mask, pattern)]
  /\ UNCHANGED <<inst, kept>>

\* the caller drops the returned tensors
Discard ==
  /\ call # NoCall
  /\ call' = NoCall
  /\ UNCHANGED <<inst, kept>>

\* the caller sets aside the return of a call made with dropout disabled
Keep ==
  /\ call.kind = "SDPA" /\ kept = NoCall
  /\ inst.dropout.p = 0 \/ ~inst.training
  /\ kept' = [call |-> call, training |-> inst.training]
  /\ call' = NoCall
  /\ UNCHANGED inst

\* a first call: attn(query, key, value, mask) while nothing is set aside
CallSDPAFirst == kept = NoCall /\ CallSDPA

\* a later call on the same module: the query, key and value of the call set
\* aside, under its mask or under none
CallSDPAAgain ==
  /\ inst.kind = "SDPA"
  /\ call = NoCall /\ kept # NoCall
  /\ \E mask \in {kept.call.mask, NoMask}, pattern \in Draws(inst) :
       call' = [kind |-> "SDPA", query |-> kept.call.query,
                key |-> kept.call.key, value |-> kept.call.value,
                mask |-> mask, pattern |-> pattern,
                result |-> SDPAForward(inst, kept.call.query, kept.call.key,
                                       kept.call.value, mask, pattern)]
  /\ UNCHANGED <<inst, kept>>

\* the tensor with the entries of the key positions in J replaced: 0 by 1 and
\* 1 by 0
ChangeRows(t, J) ==
  Tensor(t.shape, [ix \in Indices(t.shape) |->
    IF ix[Rank(t) - 1] \in J THEN 1 - t.at[ix] ELSE t.at[ix]])

\* the caller sets aside the return of a call made on one batch element under
\* a mask, with dropout disabled
KeepMasked ==
  /\ call.kind = "SDPA" /\ ~call.mask.none /\ call.result.status = "ok"
  /\ call.query.shape[1] = 1
  /\ Keep

\* a later call on the same module, dropout disabled, with the query and mask
\* of the call set aside, and its key and value changed at some key positions
CallSDPAChanged ==
  /\ inst.kind = "SDPA"
  /\ call = NoCall /\ kept # NoCall
  /\ inst.dropout.p = 0 \/ ~inst.training
  /\ \E J \in SUBSET (1..kept.call.key.shape[2]) \ {{}}, pattern \in Draws(inst) :
       LET key == ChangeRows(kept.call.key, J)
           value == ChangeRows(kept.call.value, J)
       IN call' = [kind |-> "SDPA", query |-> kept.call.query,
                   key |-> key, value |-> value,
                   mask |-> kept.call.mask, pattern |-> pattern,
                   result |-> SDPAForward(inst, kept.call.query, key, value,
                                          kept.call.mask, pattern)]
  /\ UNCHANGED <<inst, kept>>

NextSDPA == NewSDPA \/ Train \/ Eval \/ CallSDPA \/ Discard

SpecSDPA == Init /\ [][NextSDPA]_vars

NextSDPATwice ==
  NewSDPA \/ Train \/ Eval \/ CallSDPAFirst \/ Keep \/ CallSDPAAgain \/ Discard

SpecSDPATwice == Init /\ [][NextSDPATwice]_vars

NextSDPAChanged ==
  NewSDPA \/ Train \/ Eval \/ CallSDPAFirst \/ KeepMasked \/ CallSDPAChanged \/ Discard

SpecSDPAChanged == Init /\ [][NextSDPAChanged]_vars

\* mha = MultiHeadAttention(embed_dim, num_heads, dropout)
NewMHA ==
  /\ inst = NoInst
  /\ \E e \in EmbedDims, h \in HeadCounts, p \in DropoutTenths, w \in WeightChoices :
       inst' = NewMultiHeadAttention(e, h, p, w)
  /\ UNCHANGED <<call, kept>>

\* mqa = MultiQueryAttention(embed_dim, num_query_heads, dropout)
NewMQA ==
  /\ inst = NoInst
  /\ \E e \in EmbedDims, h \in HeadCounts, p \in DropoutTenths, w \in WeightChoices :
       inst' = NewMultiQueryAttention(e, h, p, w)
  /\ UNCHANGED <<call, kept>>

\* gqa = GroupedQueryAttention(embed_dim, num_query_heads, num_groups, dropout)
NewGQA ==
  /\ inst = NoInst
  /\ \E e \in EmbedDims, h \in HeadCounts, g \in GroupCounts,
        p \in DropoutTenths, w \in WeightChoices :
       inst' = NewGroupedQueryAttention(e, h, g, p, w)
  /\ UNCHANGED <<call, kept>>

\* mla = MultiHeadLatentAttention(embed_dim, num_heads, latent_dim, dropout)
NewMLA ==
  /\ inst = NoInst
  /\ \E e \in EmbedDims, h \in HeadCounts, l \in LatentDims,
        p \in DropoutTenths, w \in WeightChoices :
       inst' = NewMultiHeadLatentAttention(e, h, l, p, w)
  /\ UNCHANGED <<call, kept>>

\* generated masks for a call on x of shape (b, s, embed_dim) with h heads:
\* none, (s, s) masks, a (b, h, s, s) mask, a (b, s, s) mask, and a mask with
\* two keys too many
VariantMasks(b, h, s) ==
  {NoMask}
    \cup {GivenMask(FromSeed(<<s, s>>, m, 4)) : m \in VariantMaskSeeds}
    \cup {GivenMask(FromSeed(<<b, h, s, s>>, 13, 5)),
          GivenMask(FromSeed(<<b, s, s>>, 13, 5)),
          GivenMask(FromSeed(<<s, s + 2>>, 13, 4))}

\* the dropout draws of a call through the child attention module
ChildDraws(m, name) ==
  IF m.training /\ m.attrs[name].dropout.p > 0 THEN DropPatterns ELSE {"none"}

\* output, attn_weights = mha(x, mask)
CallMHA ==
  /\ inst.kind = "MHA" /\ inst.status = "ok"
  /\ call = NoCall
  /\ \E b \in 1..MaxBatch, s \in 1..MaxSeq, xs \in XSeeds :
       \E mask \in VariantMasks(b, inst.attrs.num_heads, s),
          pattern \in ChildDraws(inst, "attention") :
         LET x == FromSeed(<<b, s, inst.attrs.embed_dim>>, xs, 3)
         IN call' = [kind |-> "MHA", x |-> x, mask |-> mask, pattern |-> pattern,
                     result |-> MHAForward(inst, x, mask, pattern)]
  /\ UNCHANGED <<inst, kept>>

\* output, attn_weights = mqa(x, mask)
CallMQA ==
  /\ inst.kind = "MQA" /\ inst.status = "ok"
  /\ call = NoCall
  /\ \E b \in 1..MaxBatch, s \in 1..MaxSeq, xs \in XSeeds :
       \E mask \in VariantMasks(b, inst.attrs.num_query_heads, s),
          pattern \in ChildDraws(inst, "attention") :
         LET x == FromSeed(<<b, s, inst.attrs.embed_dim>>, xs, 3)
         IN call' = [kind |-> "MQA", x |-> x, mask |-> mask, pattern |-> pattern,
                     result |-> MQAForward(inst, x, mask, pattern)]
  /\ UNCHANGED <<inst, kept>>

\* output, attn_weights = gqa(x, mask)
CallGQA ==
  /\ inst.kind = "GQA" /\ inst.status = "ok"
  /\ call = NoCall
  /\ \E b \in 1..MaxBatch, s \in 1..MaxSeq, xs \in XSeeds :
       \E mask \in VariantMasks(b, inst.attrs.num_query_heads, s),
          pattern \in ChildDraws(inst, "attn") :
         LET x == FromSeed(<<b, s, inst.attrs.embed_dim>>, xs, 3)
         IN call' = [kind |-> "GQA", x |-> x, mask |-> mask, pattern |-> pattern,
                     result |-> GQAForward(inst, x, mask, pattern)]
  /\ UNCHANGED <<inst, kept>>

\* the dropout draws of a call of MultiHeadLatentAttention, through its own
\* nn.Dropout
MLADraws(m) ==
  IF m.training /\ m.attrs.dropout.p > 0 THEN DropPatterns ELSE {"none"}

\* output = mla(x, mask)
CallMLA ==
  /\ inst.kind = "MLA" /\ inst.status = "ok"
  /\ call = NoCall
  /\ \E b \in 1..MaxBatch, s \in 1..MaxSeq, xs \in XSeeds :
       \E mask \in VariantMasks(b, inst.attrs.num_heads, s),
          pattern \in MLADraws(inst) :
         LET x == FromSeed(<<b, s, inst.attrs.embed_dim>>, xs, 3)
         IN call' = [kind |-> "MLA", x |-> x, mask |-> mask, pattern |-> pattern,
                     result |-> MLAForward(inst, x, mask, pattern)]
  /\ UNCHANGED <<inst, kept>>

NextNew == NewMHA \/ NewMQA \/ NewGQA \/ NewMLA

SpecNew == Init /\ [][NextNew]_vars

NextMHA == NewMHA \/ Train \/ Eval \/ CallMHA \/ Discard

SpecMHA == Init /\ [][NextMHA]_vars

NextMQA == NewMQA \/ Train \/ Eval \/ CallMQA \/ Discard

SpecMQA == Init /\ [][NextMQA]_vars

NextGQA == NewGQA \/ Train \/ Eval \/ CallGQA \/ Discard

SpecGQA == Init /\ [][NextGQA]_vars

NextMLA == NewMLA \/ Train \/ Eval \/ CallMLA \/ Discard

SpecMLA == Init /\ [][NextMLA]_vars

\* the modules that hand per-head tensors to a ScaledDotProductAttention child
NextShared ==
  \/ NewMHA \/ NewMQA \/ NewGQA
  \/ Train \/ Eval
  \/ CallMHA \/ CallMQA \/ CallGQA
  \/ Discard

SpecShared == Init /\ [][NextShared]_vars

\* every module of the notebooks
Next ==
  \/ NewSDPA \/ NewMHA \/ NewMQA \/ NewGQA \/ NewMLA
  \/ Train \/ Eval
  \/ CallSDPA \/ CallMHA \/ CallMQA \/ CallGQA \/ CallMLA
  \/ Discard

Spec == Init /\ [][Next]_vars

(* ------------------- ScaledDotProductAttention: claims ----------------- *)

\* a completed call of ScaledDotProductAttention.forward
SDPAReturned == call.kind = "SDPA" /\ call.result.status = "ok"

\* dropout probability 0, or eval mode
DropoutOff == inst.dropout.p = 0 \/ ~inst.training

\* the (batch, ..., query position) index tuples of a weight tensor
QueryRows(w) == Indices(SubSeq(w.shape, 1, Rank(w) - 1))

KeyLen(w) == w.shape[Rank(w)]

\* the sum of the weights of one query row along the key axis
RowSum(w, r) == FSum([j \in 1..KeyLen(w) |-> w.at[r \o <<j>>]], KeyLen(w))

\* 1 within the rounding of the fixed-point division of each entry
IsOne(x, n) == ~x.nan /\ x.v <= One /\ x.v > One - n

\* the mask entry that governs the weight at index ix
Masked(mask, ix) == ~mask.none /\ BAt(mask, ix) = 0

\* the query row has a key the mask leaves visible
HasVisibleKey(mask, w, r) == \E j \in 1..KeyLen(w) : ~Masked(mask, r \o <<j>>)

\* C1 as stated: with dropout probability 0 or in eval mode, with or without a
\* mask, the attention weights of every query row sum to 1 along the key axis
C1_AllRowsSumToOne ==
  (SDPAReturned /\ DropoutOff) =>
    \A r \in QueryRows(call.result.attention_weights) :
      IsOne(RowSum(call.result.attention_weights, r),
            KeyLen(call.result.attention_weights))

\* C1 amended: with dropout probability 0 or in eval mode, the attention
\* weights of every query row that has at least one unmasked key (every row
\* when no mask is given) sum to 1 along the key axis
C1_VisibleRowsSumToOne ==
  (SDPAReturned /\ DropoutOff) =>
    \A r \in QueryRows(call.result.attention_weights) :
      HasVisibleKey(call.mask, call.result.attention_weights, r) =>
        IsOne(RowSum(call.result.attention_weights, r),
              KeyLen(call.result.attention_weights))

\* an eval-mode call of a module built with dropout 0.5, under a mask that hides
\* one key of a row and shows another, with unequal weights in a two-key row
C1_Witness ==
  /\ SDPAReturned /\ ~inst.training /\ inst.dropout.p = 5
  /\ ~call.mask.none
  /\ \E r \in QueryRows(call.result.attention_weights) :
       /\ KeyLen(call.result.attention_weights) = 2
       /\ Masked(call.mask, r \o <<1>>) /\ ~Masked(call.mask, r \o <<2>>)
  /\ \E r \in QueryRows(call.result.attention_weights) :
       /\ KeyLen(call.result.attention_weights) = 2
       /\ call.result.attention_weights.at[r \o <<1>>].v
            > call.result.attention_weights.at[r \o <<2>>].v
       /\ call.result.attention_weights.at[r \o <<2>>].v > 0

\* C2 as stated: with dropout disabled, the weight at every (i, j) with
\* mask[i][j] == 0 is exactly 0, whatever the other entries of the mask row
C2_MaskedWeightIsZero ==
  (SDPAReturned /\ DropoutOff) =>
    \A ix \in DOMAIN call.result.attention_weights.at :
      Masked(call.mask, ix) => call.result.attention_weights.at[ix] = Fin(0)

\* C2 amended: with dropout disabled, the weight at every (i, j) with
\* mask[i][j] == 0 is exactly 0 whatever the raw score, provided row i has at
\* least one unmasked key; in a row whose keys are all masked it is NaN
C2_MaskedWeightIsZeroInVisibleRow ==
  (SDPAReturned /\ DropoutOff) =>
    \A ix \in DOMAIN call.result.attention_weights.at :
      Masked(call.mask, ix) =>
        call.result.attention_weights.at[ix] =
          IF HasVisibleKey(call.mask, call.result.attention_weights,
                           SubSeq(ix, 1, Len(ix) - 1))
          THEN Fin(0) ELSE NaN

\* a masked key whose raw score is the largest of its row, beside an unmasked one
C2_Witness ==
  /\ SDPAReturned /\ DropoutOff /\ ~call.mask.none
  /\ \E ix \in DOMAIN call.result.attention_weights.at :
       LET raw == Scores(call.query, call.key)
           r == SubSeq(ix, 1, Len(ix) - 1)
       IN /\ Masked(call.mask, ix)
          /\ \E j \in 1..KeyLen(raw) :
               /\ ~Masked(call.mask, r \o <<j>>)
               /\ raw.at[ix].dot > raw.at[r \o <<j>>].dot
               /\ call.result.attention_weights.at[r \o <<j>>] = Fin(One)

AllOnes(mask) == ~mask.none /\ \A ix \in DOMAIN mask.at : mask.at[ix] = 1

\* C3: with dropout disabled, a mask whose entries are all 1 gives the same
\* output and the same attention_weights as mask=None on the same query, key
\* and value
C3_AllOnesMaskIsNoMask ==
  (call.kind = "SDPA" /\ DropoutOff /\ AllOnes(call.mask)) =>
    call.result =
      SDPAForward(inst, call.query, call.key, call.value, NoMask, "none")

\* a completed call under an all-ones mask over two queries and two keys, with
\* unequal weights in a row
C3_Witness ==
  /\ SDPAReturned /\ DropoutOff /\ AllOnes(call.mask)
  /\ call.mask.shape = <<2, 2>>
  /\ \E r \in QueryRows(call.result.attention_weights) :
       call.result.attention_weights.at[r \o <<1>>]
         # call.result.attention_weights.at[r \o <<2>>]

(* ------------------------- MultiHeadAttention: claims ------------------ *)

\* a completed call of MultiHeadAttention.forward
MHAReturned == call.kind = "MHA" /\ call.result.status = "ok"

\* the projection of x through one nn.Linear, split into heads
Projected(layer, x, heads, head_dim) ==
  SplitHeads(LinearApply(layer, x), x.shape[1], x.shape[2], heads, head_dim)

\* C4: MultiHeadAttention.forward obtains Q through q_proj, K through k_proj
\* and V through v_proj, three independent linear maps of the input
C4_QKVFromOwnProjections ==
  MHAReturned =>
    /\ call.result.q = Projected(inst.attrs.q_proj, call.x,
                                 inst.attrs.num_heads, inst.attrs.head_dim)
    /\ call.result.k = Projected(inst.attrs.k_proj, call.x,
                                 inst.attrs.num_heads, inst.attrs.head_dim)
    /\ call.result.v = Projected(inst.attrs.v_proj, call.x,
                                 inst.attrs.num_heads, inst.attrs.head_dim)

(* ---------------------------- construction: claims --------------------- *)

Constructed == inst.kind \in {"MHA", "MQA", "GQA", "MLA"}

\* the number of (query) heads the constructor was given
HeadsArg ==
  IF inst.kind \in {"MQA", "GQA"} THEN inst.args.num_query_heads
  ELSE inst.args.num_heads

Divides(n, m) == n # 0 /\ m % n = 0

\* the divisibility preconditions of the constructor
Preconditions ==
  /\ Divides(HeadsArg, inst.args.embed_dim)
  /\ inst.kind = "GQA" => Divides(inst.args.num_groups, HeadsArg)

\* the dimension attributes and projection layers of a module kind
AttrNames(kind) ==
  CASE kind = "MHA" -> {"embed_dim", "num_heads", "head_dim",
                        "q_proj", "k_proj", "v_proj", "out_proj"}
    [] kind = "MQA" -> {"embed_dim", "num_query_heads", "head_dim",
                        "q_proj", "k_proj", "v_proj", "out_proj"}
    [] kind = "GQA" -> {"embed_dim", "num_query_heads", "query_head_dim",
                        "num_groups", "heads_per_group", "kv_head_dim",
                        "q_proj", "k_proj", "v_proj", "out_proj"}
    [] kind = "MLA" -> {"embed_dim", "num_heads", "head_dim", "latent_dim",
                        "q_proj", "kv_compress", "k_decompress",
                        "v_decompress", "out_proj"}

\* C5: constructing MHA, MQA, GQA or MLA with an embed_dim not divisible by
\* the number of (query) heads fails with an error before any projection layer
\* or dimension attribute exists; construction succeeds whenever the
\* divisibility preconditions hold
C5_IndivisibleEmbedDimFails ==
  Constructed =>
    /\ ~Divides(HeadsArg, inst.args.embed_dim) =>
         /\ inst.status \in {"AssertionError", "ZeroDivisionError"}
         /\ AttrNames(inst.kind) \cap DOMAIN inst.attrs = {}
    /\ Preconditions =>
         /\ inst.status = "ok"
         /\ AttrNames(inst.kind) \subseteq DOMAIN inst.attrs

\* MultiHeadAttention(embed_dim=4, num_heads=3) has raised its assertion
C5_Witness ==
  /\ inst.kind = "MHA" /\ inst.args.embed_dim = 4 /\ inst.args.num_heads = 3
  /\ inst.status = "AssertionError"

\* C6: constructing GroupedQueryAttention with num_query_heads not divisible
\* by num_groups fails with an error even when embed_dim is divisible by
\* num_query_heads, and no usable instance results
C6_IndivisibleGroupsFail ==
  (/\ inst.kind = "GQA"
   /\ Divides(inst.args.num_query_heads, inst.args.embed_dim)
   /\ inst.args.num_groups # 0
   /\ inst.args.num_query_heads % inst.args.num_groups # 0) =>
    /\ inst.status = "AssertionError"
    /\ DOMAIN inst.attrs = {}
    /\ call = NoCall

\* GroupedQueryAttention(embed_dim=4, num_query_heads=4, num_groups=3) has
\* raised its second assertion
C6_Witness ==
  /\ inst.kind = "GQA" /\ inst.args.embed_dim = 4
  /\ inst.args.num_query_heads = 4 /\ inst.args.num_groups = 3
  /\ inst.status = "AssertionError"

(* ----------------------- GroupedQueryAttention: claims ----------------- *)

GQACalled == call.kind = "GQA"

\* C7: for every validly constructed GroupedQueryAttention and every x of
\* shape (batch_size, seq_length, embed_dim), forward returns output of shape
\* (batch_size, seq_length, embed_dim) and attn_weights of shape
\* (batch_size, num_query_heads, seq_length, seq_length)
C7_GQAForwardReturns ==
  GQACalled =>
    /\ call.result.status = "ok"
    /\ call.result.output.shape = call.x.shape
    /\ call.result.attn_weights.shape =
         <<call.x.shape[1], inst.attrs.num_query_heads,
           call.x.shape[2], call.x.shape[2]>>

\* the K/V groups of x: the projection split into num_groups heads
Groups(layer) ==
  Projected(layer, call.x, inst.attrs.num_groups, inst.attrs.query_head_dim)

\* head h of the repeated tensor is group (h - 1) div heads_per_group + 1
FollowsGroups(repeated, groups) ==
  /\ repeated.shape = [groups.shape EXCEPT ![2] = inst.attrs.num_query_heads]
  /\ \A ix \in DOMAIN repeated.at :
       repeated.at[ix] =
         groups.at[[ix EXCEPT ![2] =
                      ((ix[2] - 1) \div inst.attrs.heads_per_group) + 1]]

\* C8: in GroupedQueryAttention.forward the key and value used by query head
\* h are those of K/V group floor(h / heads_per_group): contiguous blocks
C8_HeadsFollowGroups ==
  GQACalled =>
    /\ call.result.status = "ok"
    /\ FollowsGroups(call.result.k, Groups(inst.attrs.k_proj))
    /\ FollowsGroups(call.result.v, Groups(inst.attrs.v_proj))

\* two calls returned, and returned the same output and attention weights
SameReturn(r1, r2) ==
  /\ r1.status = "ok" /\ r2.status = "ok"
  /\ r1.output = r2.output
  /\ r1.attn_weights = r2.attn_weights

GQADropoutOff == inst.attrs.attn.dropout.p = 0 \/ ~inst.training

\* the MultiHeadAttention with the dimensions and projection weights of a
\* GroupedQueryAttention whose num_groups is num_query_heads
MHATwin(gqa) ==
  [Built("MHA",
         [embed_dim |-> gqa.args.embed_dim,
          num_heads |-> gqa.args.num_query_heads,
          dropout |-> gqa.args.dropout],
         [embed_dim |-> gqa.attrs.embed_dim,
          num_heads |-> gqa.attrs.num_query_heads,
          head_dim |-> gqa.attrs.query_head_dim,
          q_proj |-> gqa.attrs.q_proj,
          k_proj |-> gqa.attrs.k_proj,
          v_proj |-> gqa.attrs.v_proj,
          out_proj |-> gqa.attrs.out_proj,
          attention |-> gqa.attrs.attn])
   EXCEPT !.training = gqa.training]

\* the MultiQueryAttention with the dimensions and projection weights of a
\* GroupedQueryAttention whose num_groups is 1
MQATwin(gqa) ==
  [Built("MQA",
         [embed_dim |-> gqa.args.embed_dim,
          num_query_heads |-> gqa.args.num_query_heads,
          dropout |-> gqa.args.dropout],
         [embed_dim |-> gqa.attrs.embed_dim,
          num_query_heads |-> gqa.attrs.num_query_heads,
          head_dim |-> gqa.attrs.query_head_dim,
          q_proj |-> gqa.attrs.q_proj,
          k_proj |-> gqa.attrs.k_proj,
          v_proj |-> gqa.attrs.v_proj,
          out_proj |-> gqa.attrs.out_proj,
          attention |-> gqa.attrs.attn])
   EXCEPT !.training = gqa.training]

\* C9: GroupedQueryAttention with num_groups == num_query_heads returns, with
\* dropout disabled, the same output and attention weights as
\* MultiHeadAttention with the same dimensions and projection weights
C9_GQAWithAllGroupsIsMHA ==
  (/\ GQACalled /\ GQADropoutOff
   /\ inst.attrs.num_groups = inst.attrs.num_query_heads) =>
    SameReturn(call.result,
               MHAForward(MHATwin(inst), call.x, call.mask, "none"))

\* C10: GroupedQueryAttention with num_groups == 1 returns, with dropout
\* disabled, the same output and attention weights as MultiQueryAttention
\* with the same dimensions and projection weights
C10_GQAWithOneGroupIsMQA ==
  (/\ GQACalled /\ GQADropoutOff
   /\ inst.attrs.num_groups = 1) =>
    SameReturn(call.result,
               MQAForward(MQATwin(inst), call.x, call.mask, "none"))

(* --------------- ScaledDotProductAttention: shapes and calls ----------- *)

\* the shape of the scores of a call: (..., q_len, k_len)
ScoreShape(query, key) ==
  Lead(query.shape) \o <<query.shape[Rank(query) - 1], key.shape[Rank(key) - 1]>>

\* no mask, or a mask that broadcasts to the scores and leaves their shape
MaskFits(mask, shape) ==
  mask.none \/ (/\ BroadcastOK(shape, mask.shape)
                /\ BroadcastShape(shape, mask.shape) = shape)

\* C15: for query (..., q_len, d), key (..., k_len, d) and value
\* (..., k_len, d_v), also with q_len # k_len, forward returns output of shape
\* (..., q_len, d_v) and attention_weights of shape (..., q_len, k_len)
C15_QueryLengthMayDiffer ==
  (/\ call.kind = "SDPA"
   /\ MaskFits(call.mask, ScoreShape(call.query, call.key))) =>
    /\ call.result.status = "ok"
    /\ call.result.output.shape =
         Lead(call.query.shape)
           \o <<call.query.shape[Rank(call.query) - 1],
                call.value.shape[Rank(call.value)]>>
    /\ call.result.attention_weights.shape = ScoreShape(call.query, call.key)

\* a returned call with one query, two keys and a value wider than the key
C15_Witness ==
  /\ SDPAReturned
  /\ call.query.shape = <<2, 1, 1>> /\ call.key.shape = <<2, 2, 1>>
  /\ call.value.shape = <<2, 2, 2>>
  /\ call.result.output.shape = <<2, 1, 2>>
  /\ call.result.attention_weights.shape = <<2, 1, 2>>

\* the call the caller holds repeats the inputs of the call set aside
SameInputs ==
  /\ kept # NoCall /\ call.kind = "SDPA"
  /\ call.query = kept.call.query /\ call.key = kept.call.key
  /\ call.value = kept.call.value /\ call.mask = kept.call.mask

MaskedScores ==
  IF call.mask.none THEN Scores(call.query, call.key)
  ELSE MaskedFill(Scores(call.query, call.key), call.mask)

\* C19: the steps of forward run in the order scale, mask, softmax, dropout,
\* multiply by value: the mask fills the scaled scores before the softmax, the
\* dropout acts on the softmax result, and the output is the product of the
\* dropped weights with value
C19_StepsInOrder ==
  SDPAReturned =>
    LET softmax == Softmax(MaskedScores)
    IN /\ call.result.attention_weights =
            Dropout(inst.dropout, inst.training, softmax, call.pattern)
       /\ call.result.output = FMatmul(call.result.attention_weights, call.value)
       /\ \A ix \in DOMAIN call.result.attention_weights.at :
            LET w == call.result.attention_weights.at[ix]
                soft == softmax.at[ix]
            IN \/ w = soft
               \/ w = Fin(0) /\ ~soft.nan
               \/ ~w.nan /\ ~soft.nan
                    /\ w.v = (soft.v * 10) \div (10 - inst.dropout.p)

\* a training-mode call with dropout 0.5 under a mask: a masked key has weight
\* 0, and the only visible key of a row, undropped, has weight 1 / (1 - 0.5)
C19_Witness ==
  /\ SDPAReturned /\ inst.training /\ inst.dropout.p = 5
  /\ call.pattern = "odd" /\ ~call.mask.none
  /\ \E r \in QueryRows(call.result.attention_weights) :
       /\ KeyLen(call.result.attention_weights) = 2
       /\ Masked(call.mask, r \o <<2>>) /\ ~Masked(call.mask, r \o <<1>>)
       /\ call.result.attention_weights.at[r \o <<2>>] = Fin(0)
       /\ call.result.attention_weights.at[r \o <<1>>] = Fin(2 * One)

\* an entry of the returned weights is 0 where the softmax result is not
Zeroed ==
  LET softmax == Softmax(MaskedScores)
  IN \E ix \in DOMAIN call.result.attention_weights.at :
       /\ call.result.attention_weights.at[ix] = Fin(0)
       /\ softmax.at[ix] # Fin(0)

\* C20: a forward call made in eval mode returns the softmax result as its
\* attention_weights for every dropout probability (rows with a visible key
\* summing to 1), and only a call made in training mode with dropout
\* probability > 0 zeroes weight entries
C20_DropoutOnlyInTraining ==
  SDPAReturned =>
    /\ ~inst.training =>
         /\ call.result.attention_weights = Softmax(MaskedScores)
         /\ \A r \in QueryRows(call.result.attention_weights) :
              HasVisibleKey(call.mask, call.result.attention_weights, r) =>
                IsOne(RowSum(call.result.attention_weights, r),
                      KeyLen(call.result.attention_weights))
    /\ Zeroed => (inst.training /\ inst.dropout.p > 0)

\* after eval(), a call without mask of a module built with dropout 0.5
\* returns the softmax result, with unequal weights in a two-key row
C20_Witness ==
  /\ SDPAReturned /\ ~inst.training /\ inst.dropout.p = 5
  /\ call.mask.none
  /\ call.result.attention_weights = Softmax(MaskedScores)
  /\ \E r \in QueryRows(call.result.attention_weights) :
       /\ KeyLen(call.result.attention_weights) = 2
       /\ call.result.attention_weights.at[r \o <<1>>].v
            < call.result.attention_weights.at[r \o <<2>>].v
       /\ call.result.attention_weights.at[r \o <<1>>].v > 0

\* a training-mode call with dropout 0.5 has zeroed a weight
C20_WitnessZeroed ==
  SDPAReturned /\ inst.training /\ inst.dropout.p = 5 /\ Zeroed

(* ------------------ MultiHeadAttention: one head, shapes --------------- *)

MHADropoutOff == inst.attrs.attention.dropout.p = 0 \/ ~inst.training

\* ScaledDotProductAttention on the full-width projections of x through
\* q_proj, k_proj and v_proj, with dropout disabled
FullWidthSDPA ==
  SDPAForward(Child(inst, "attention"),
              LinearApply(inst.attrs.q_proj, call.x),
              LinearApply(inst.attrs.k_proj, call.x),
              LinearApply(inst.attrs.v_proj, call.x),
              call.mask, "none")

\* C11: MultiHeadAttention with num_heads = 1 and dropout disabled returns
\* the attention weights of ScaledDotProductAttention on the full-width
\* projected Q, K and V with a singleton head axis added, and out_proj applied
\* to its output
C11_OneHeadIsSDPA ==
  (/\ MHAReturned /\ MHADropoutOff
   /\ inst.attrs.num_heads = 1
   /\ MaskFits(call.mask, <<call.x.shape[1], call.x.shape[2], call.x.shape[2]>>)) =>
    /\ FullWidthSDPA.status = "ok"
    /\ call.result.attn_weights = Unsqueeze1(FullWidthSDPA.attention_weights)
    /\ call.result.output = FLinearApply(inst.attrs.out_proj, FullWidthSDPA.output)

\* the shape (batch, heads, seq, seq) of the scores of a call on x
HeadScoreShape(x, heads) == <<x.shape[1], heads, x.shape[2], x.shape[2]>>

\* C12: for every valid MultiHeadAttention and every x of shape
\* (batch, seq, embed_dim), forward returns output of shape
\* (batch, seq, embed_dim) and attn_weights of shape
\* (batch, num_heads, seq, seq); with dropout disabled every row of
\* attn_weights (that has an unmasked key, when a mask is given) sums to 1
C12_MHAShapesAndRowSums ==
  (/\ call.kind = "MHA"
   /\ MaskFits(call.mask, HeadScoreShape(call.x, inst.attrs.num_heads))) =>
    /\ call.result.status = "ok"
    /\ call.result.output.shape = call.x.shape
    /\ call.result.attn_weights.shape =
         HeadScoreShape(call.x, inst.attrs.num_heads)
    /\ MHADropoutOff =>
         \A r \in QueryRows(call.result.attn_weights) :
           HasVisibleKey(call.mask, call.result.attn_weights, r) =>
             IsOne(RowSum(call.result.attn_weights, r),
                   KeyLen(call.result.attn_weights))

\* embed_dim=4, num_heads=2, batch=2, seq=2, no mask, dropout disabled: shapes
\* (2,2,4) and (2,2,2,2), and a row with unequal weights
C12_Witness ==
  /\ MHAReturned /\ MHADropoutOff /\ call.mask.none
  /\ inst.attrs.embed_dim = 4 /\ inst.attrs.num_heads = 2
  /\ call.x.shape = <<2, 2, 4>>
  /\ call.result.output.shape = <<2, 2, 4>>
  /\ call.result.attn_weights.shape = <<2, 2, 2, 2>>
  /\ \E r \in QueryRows(call.result.attn_weights) :
       call.result.attn_weights.at[r \o <<1>>].v
         > call.result.attn_weights.at[r \o <<2>>].v

(* ----------------------- MultiQueryAttention: claims ------------------- *)

MQAReturned == call.kind = "MQA" /\ call.result.status = "ok"

MQADropoutOff == inst.attrs.attention.dropout.p = 0 \/ ~inst.training

\* head h of a (batch, heads, seq, width) tensor
HeadSlice(t, h) ==
  [ix \in Indices(<<t.shape[1], t.shape[3], t.shape[4]>>) |->
     t.at[<<ix[1], h, ix[2], ix[3]>>]]

\* the mask treats heads h1 and h2 alike
SameMaskSlice(mask, shape, h1, h2) ==
  mask.none \/ \A ix \in Indices(shape) :
                 BAt(mask, [ix EXCEPT ![2] = h1]) = BAt(mask, [ix EXCEPT ![2] = h2])

\* K and V are one head of width head_dim, and attention over them is
\* attention over that head repeated for every query head
SharedKV ==
  /\ call.result.k = Unsqueeze1(LinearApply(inst.attrs.k_proj, call.x))
  /\ call.result.v = Unsqueeze1(LinearApply(inst.attrs.v_proj, call.x))
  /\ call.result.k.shape =
       <<call.x.shape[1], 1, call.x.shape[2], inst.attrs.head_dim>>
  /\ call.result.v.shape = call.result.k.shape
  /\ LET r == SDPAForward(Child(inst, "attention"), call.result.q,
                          RepeatInterleave(call.result.k, inst.attrs.num_query_heads),
                          RepeatInterleave(call.result.v, inst.attrs.num_query_heads),
                          call.mask, call.pattern)
     IN /\ r.status = "ok"
        /\ r.attention_weights = call.result.attn_weights
        /\ r.output = call.result.attn_output

\* heads h1 and h2 have equal attention weights and equal head outputs
SameHead(h1, h2) ==
  /\ HeadSlice(call.result.attn_weights, h1) = HeadSlice(call.result.attn_weights, h2)
  /\ HeadSlice(call.result.attn_output, h1) = HeadSlice(call.result.attn_output, h2)

\* C13 as stated: K and V are one shared head of width head_dim, and any two
\* heads whose query slices are equal have equal attention weights and equal
\* head outputs
C13_EqualQueriesEqualHeads ==
  (/\ call.kind = "MQA"
   /\ MaskFits(call.mask, HeadScoreShape(call.x, inst.attrs.num_query_heads))) =>
    /\ call.result.status = "ok"
    /\ SharedKV
    /\ \A h1, h2 \in 1..inst.attrs.num_query_heads :
         HeadSlice(call.result.q, h1) = HeadSlice(call.result.q, h2) =>
           SameHead(h1, h2)

\* C13 amended: K and V are one shared head of width head_dim, and with
\* dropout disabled any two heads whose query slices are equal and which the
\* mask treats alike have equal attention weights and equal head outputs
C13_EqualQueriesEqualHeadsUnderSameMask ==
  (/\ call.kind = "MQA"
   /\ MaskFits(call.mask, HeadScoreShape(call.x, inst.attrs.num_query_heads))) =>
    /\ call.result.status = "ok"
    /\ SharedKV
    /\ MQADropoutOff =>
         \A h1, h2 \in 1..inst.attrs.num_query_heads :
           (/\ HeadSlice(call.result.q, h1) = HeadSlice(call.result.q, h2)
            /\ SameMaskSlice(call.mask, call.result.attn_weights.shape, h1, h2)) =>
             SameHead(h1, h2)

\* embed_dim=4, four query heads, seq=2, a mask shared by the heads: heads 1
\* and 4 have equal query slices, head 2 another one, and the weights of a
\* row of head 1 are unequal
C13_Witness ==
  /\ MQAReturned /\ MQADropoutOff /\ ~call.mask.none
  /\ inst.attrs.num_query_heads = 4 /\ inst.attrs.head_dim = 1
  /\ call.x.shape[2] = 2
  /\ HeadSlice(call.result.q, 1) = HeadSlice(call.result.q, 4)
  /\ HeadSlice(call.result.q, 1) # HeadSlice(call.result.q, 2)
  /\ SameMaskSlice(call.mask, call.result.attn_weights.shape, 1, 4)
  /\ SameHead(1, 4)
  /\ \E b \in 1..call.x.shape[1], i \in 1..2 :
       /\ call.result.attn_weights.at[<<b, 1, i, 1>>].v > 0
       /\ call.result.attn_weights.at[<<b, 1, i, 1>>].v
            # call.result.attn_weights.at[<<b, 1, i, 2>>].v

(* -------------------- MultiHeadLatentAttention: claims ----------------- *)

MLAReturned == call.kind = "MLA" /\ call.result.status = "ok"

\* C14: for every valid MultiHeadLatentAttention and every latent_dim >= 1,
\* forward returns an output of the shape (batch, seq_len, embed_dim) of x,
\* and its latent tensor has shape (batch, seq_len, latent_dim) whatever
\* embed_dim is
C14_MLAShapes ==
  (/\ call.kind = "MLA"
   /\ MaskFits(call.mask, HeadScoreShape(call.x, inst.attrs.num_heads))) =>
    /\ call.result.status = "ok"
    /\ call.result.output.shape = call.x.shape
    /\ call.result.latent.shape =
         <<call.x.shape[1], call.x.shape[2], inst.args.latent_dim>>

\* embed_dim=4, two heads, latent_dim=1, batch=2, seq=2: output (2,2,4) and
\* latent (2,2,1)
C14_Witness ==
  /\ MLAReturned
  /\ inst.args.embed_dim = 4 /\ inst.args.num_heads = 2
  /\ inst.args.latent_dim = 1
  /\ call.x.shape = <<2, 2, 4>>
  /\ call.result.output.shape = <<2, 2, 4>>
  /\ call.result.latent.shape = <<2, 2, 1>>

\* C18: MultiHeadLatentAttention.forward accepts a mask of shape
\* (batch, seq_len, seq_len), and the score at (b, h, i, j) is masked if and
\* only if mask[b][i][j] == 0, for every batch size and every num_heads
C18_BatchMaskPerBatchElement ==
  (/\ call.kind = "MLA" /\ ~call.mask.none
   /\ call.mask.shape = <<call.x.shape[1], call.x.shape[2], call.x.shape[2]>>) =>
    /\ call.result.status = "ok"
    /\ call.result.attn_scores.shape =
         HeadScoreShape(call.x, inst.attrs.num_heads)
    /\ \A ix \in DOMAIN call.result.attn_scores.at :
         call.result.attn_scores.at[ix].inf
           <=> (call.mask.at[<<ix[1], ix[3], ix[4]>>] = 0)

(* --------------------------- masks of a wrong shape -------------------- *)

\* the shape of the scores the mask of the call meets
CallScoreShape ==
  CASE call.kind = "SDPA" -> ScoreShape(call.query, call.key)
    [] call.kind \in {"MHA", "MLA"} ->
         HeadScoreShape(call.x, inst.attrs.num_heads)
    [] call.kind \in {"MQA", "GQA"} ->
         HeadScoreShape(call.x, inst.attrs.num_query_heads)

\* the call was given a mask that does not broadcast with its scores
IncompatibleMask ==
  /\ call # NoCall /\ ~call.mask.none
  /\ ~BroadcastOK(CallScoreShape, call.mask.shape)

\* C17: a forward call of SDPA, MHA, MQA, GQA or MLA with a mask whose shape
\* is not broadcast-compatible with the scores raises a shape-mismatch error
\* and returns no output
C17_IncompatibleMaskRaises ==
  IncompatibleMask => call.result.status = "RuntimeError"

\* what holds of C17: the calls of SDPA, MHA, MQA and MLA with such a mask
\* raise the shape-mismatch error
C17_IncompatibleMaskRaisesButGQA ==
  (IncompatibleMask /\ call.kind # "GQA") => call.result.status = "RuntimeError"

(* ------------------------- the divisor of the scores ------------------- *)

\* a completed call of a module that hands per-head tensors to self.attention
HeadsReturned ==
  call.kind \in {"MHA", "MQA", "GQA"} /\ call.result.status = "ok"

\* the dropout of the child attention module
ChildDropout ==
  IF inst.kind = "GQA" THEN inst.attrs.attn.dropout
  ELSE inst.attrs.attention.dropout

\* the attention weights of q and k when the raw scores are divided by sqrt(d)
WeightsDividedBy(d) ==
  LET raw == Matmul(call.result.q, Transpose(call.result.k))
      scaled == [shape |-> raw.shape,
                 at |-> [ix \in DOMAIN raw.at |-> Scaled(raw.at[ix], d)]]
      masked == IF call.mask.none THEN scaled ELSE MaskedFill(scaled, call.mask)
  IN Dropout(ChildDropout, inst.training, Softmax(masked), call.pattern)

\* C21: when ScaledDotProductAttention is invoked from MHA, MQA or GQA the
\* raw scores are divided by the square root of embed_dim / num_heads, the
\* per-head dimension of the query, never by that of embed_dim
C21_DivisorIsHeadDim ==
  HeadsReturned =>
    /\ call.result.q.shape[4] = inst.attrs.embed_dim \div HeadsArg
    /\ call.result.attn_weights =
         WeightsDividedBy(inst.attrs.embed_dim \div HeadsArg)

\* a call with more than one head whose weights are not those the full
\* embedding width would give
C21_Witness ==
  /\ HeadsReturned /\ HeadsArg > 1
  /\ call.result.attn_weights # WeightsDividedBy(inst.attrs.embed_dim)
  /\ \E ix \in DOMAIN call.result.attn_weights.at :
       ~call.result.attn_weights.at[ix].nan

(* ------------ ScaledDotProductAttention: fully masked rows ------------- *)

\* the mask with every row that is 0 throughout set to 1 throughout
OpenRows(mask) ==
  LET n == Len(mask.shape)
  IN GivenMask(Tensor(mask.shape, [ix \in Indices(mask.shape) |->
       IF \A j \in 1..mask.shape[n] : mask.at[[ix EXCEPT ![n] = j]] = 0
       THEN 1 ELSE mask.at[ix]]))

\* the weights of query row r are all NaN, or all finite and equal
OnePolicy(w, r) ==
  \/ \A j \in 1..KeyLen(w) : w.at[r \o <<j>>].nan
  \/ \A j \in 1..KeyLen(w) :
       ~w.at[r \o <<j>>].nan /\ w.at[r \o <<j>>] = w.at[r \o <<1>>]

\* C22: when every key of a query row is masked, forward returns, the weights
\* of that row are all NaN or all equal, never a mixture, and the rows that
\* have an unmasked key hold the weights they hold when the fully masked rows
\* are opened
C22_FullyMaskedRowOnePolicy ==
  (/\ call.kind = "SDPA" /\ ~call.mask.none
   /\ MaskFits(call.mask, ScoreShape(call.query, call.key))) =>
    /\ call.result.status = "ok"
    /\ LET w == call.result.attention_weights
           open == SDPAForward(inst, call.query, call.key, call.value,
                               OpenRows(call.mask), call.pattern)
       IN \A r \in QueryRows(w) :
            IF HasVisibleKey(call.mask, w, r)
            THEN \A j \in 1..KeyLen(w) :
                   w.at[r \o <<j>>] = open.attention_weights.at[r \o <<j>>]
            ELSE OnePolicy(w, r)

\* a mask that hides both keys of one query and shows both keys of the other:
\* the first row is NaN throughout, the second holds two unequal weights
C22_Witness ==
  /\ SDPAReturned /\ ~call.mask.none
  /\ call.mask.shape = <<2, 2>>
  /\ \E b \in 1..call.query.shape[1] :
       LET w == call.result.attention_weights
       IN /\ ~HasVisibleKey(call.mask, w, <<b, 1>>)
          /\ w.at[<<b, 1, 1>>].nan /\ w.at[<<b, 1, 2>>].nan
          /\ ~Masked(call.mask, <<b, 2, 1>>) /\ ~Masked(call.mask, <<b, 2, 2>>)
          /\ ~w.at[<<b, 2, 1>>].nan /\ w.at[<<b, 2, 1>>].v > w.at[<<b, 2, 2>>].v
          /\ w.at[<<b, 2, 2>>].v > 0

(* ------------ ScaledDotProductAttention: masked keys and values -------- *)

\* the row of key or value t at key position j of a batch element
KVRow(t, lead, j) == [c \in 1..t.shape[Rank(t)] |-> t.at[lead \o <<j, c>>]]

\* the call the caller holds has the query and mask of the call set aside, and
\* both returned
SameQueryAndMask ==
  /\ kept # NoCall /\ call.kind = "SDPA"
  /\ call.query = kept.call.query /\ call.mask = kept.call.mask
  /\ call.result.status = "ok" /\ kept.call.result.status = "ok"

\* every key position the mask shows to query row r has the same key row and
\* the same value row in both calls
SameVisibleKV(r) ==
  LET lead == SubSeq(r, 1, Len(r) - 1)
  IN \A j \in 1..call.key.shape[Rank(call.key) - 1] :
       ~Masked(call.mask, r \o <<j>>) =>
         /\ KVRow(call.key, lead, j) = KVRow(kept.call.key, lead, j)
         /\ KVRow(call.value, lead, j) = KVRow(kept.call.value, lead, j)

OutputRow(result, r) ==
  [c \in 1..result.output.shape[Rank(result.output)] |-> result.output.at[r \o <<c>>]]

\* C23: with dropout disabled, two calls that differ only in key and value
\* rows masked for query row i return the same output row i, provided row i
\* has an unmasked key; under a lower-triangular mask that is every position
\* after i
C23_MaskedKeysDoNotInterfere ==
  (SameQueryAndMask /\ DropoutOff) =>
    \A r \in QueryRows(call.result.attention_weights) :
      (/\ HasVisibleKey(call.mask, call.result.attention_weights, r)
       /\ SameVisibleKV(r)) =>
        OutputRow(call.result, r) = OutputRow(kept.call.result, r)

\* two calls under the causal mask [[1, 0], [1, 1]] whose key and value differ
\* at the second position: the first output row is the same, the second is not
C23_Witness ==
  /\ SameQueryAndMask /\ DropoutOff
  /\ ~call.mask.none /\ call.mask.shape = <<2, 2>>
  /\ call.mask.at = (<<1, 1>> :> 1 @@ <<1, 2>> :> 0 @@ <<2, 1>> :> 1 @@ <<2, 2>> :> 1)
  /\ KVRow(call.key, <<1>>, 2) # KVRow(kept.call.key, <<1>>, 2)
  /\ KVRow(call.value, <<1>>, 2) # KVRow(kept.call.value, <<1>>, 2)
  /\ SameVisibleKV(<<1, 1>>)
  /\ OutputRow(call.result, <<1, 1>>) = OutputRow(kept.call.result, <<1, 1>>)
  /\ OutputRow(call.result, <<1, 2>>) # OutputRow(kept.call.result, <<1, 2>>)

(* ---------------- MultiHeadLatentAttention: the latent ----------------- *)

\* every generated tensor of zeros and ones of the shape of the call's input
InputsLike(x) == {FromSeed(x.shape, xs, 3) : xs \in 0..7}

\* what forward computes for another input under the call's mask and draw
MLAOn(x) == MLAForward(inst, x, call.mask, call.pattern)

\* C24: K and V depend on x only through latent = kv_compress(x): inputs with
\* equal latents have equal per-head K and V; K and V are the up-projections
\* k_decompress and v_decompress of that one latent, Q is q_proj of x
C24_KVThroughLatentOnly ==
  MLAReturned =>
    LET a == inst.attrs
    IN /\ call.result.latent = LinearApply(a.kv_compress, call.x)
       /\ call.result.K = SplitHeads(LinearApply(a.k_decompress, call.result.latent),
                                     call.x.shape[1], call.x.shape[2],
                                     a.num_heads, a.head_dim)
       /\ call.result.V = SplitHeads(LinearApply(a.v_decompress, call.result.latent),
                                     call.x.shape[1], call.x.shape[2],
                                     a.num_heads, a.head_dim)
       /\ call.result.Q = Projected(a.q_proj, call.x, a.num_heads, a.head_dim)
       /\ \A x \in InputsLike(call.x) \ {call.x} :
            LinearApply(a.kv_compress, x) = call.result.latent =>
              LET other == MLAOn(x)
              IN /\ other.status = "ok"
                 /\ other.K = call.result.K
                 /\ other.V = call.result.V

\* another input has the latent of the call's input and a different Q, and K
\* and V come from different up-projections
C24_Witness ==
  /\ MLAReturned
  /\ call.result.K # call.result.V
  /\ \E x \in InputsLike(call.x) :
       /\ x # call.x
       /\ LinearApply(inst.attrs.kv_compress, x) = call.result.latent
       /\ LET other == MLAOn(x)
          IN /\ other.status = "ok"
             /\ other.Q # call.result.Q
             /\ other.K = call.result.K

(* ------------ MultiHeadLatentAttention: the inline attention ----------- *)

\* a ScaledDotProductAttention with the dropout and the mode of the module
InlineSDPA ==
  [NewScaledDotProductAttention(inst.attrs.dropout.p) EXCEPT
     !.training = inst.training]

\* the per-head Q, K and V of the call's input
HeadsOfLatent(layer) ==
  SplitHeads(LinearApply(layer, LinearApply(inst.attrs.kv_compress, call.x)),
             call.x.shape[1], call.x.shape[2],
             inst.attrs.num_heads, inst.attrs.head_dim)

\* ScaledDotProductAttention.forward on the per-head Q, K, V, the mask and the
\* dropout draw of the call
SDPAOnHeads ==
  SDPAForward(InlineSDPA,
              Projected(inst.attrs.q_proj, call.x,
                        inst.attrs.num_heads, inst.attrs.head_dim),
              HeadsOfLatent(inst.attrs.k_decompress),
              HeadsOfLatent(inst.attrs.v_decompress),
              call.mask, call.pattern)

\* C25: the attention MultiHeadLatentAttention.forward computes inline is that
\* of ScaledDotProductAttention.forward on the same per-head Q, K, V and mask
\* with the same dropout: the same attention weights and the same per-head
\* output, and an error of the one only where the other fails or its heads do
\* not merge
C25_InlineAttentionIsSDPA ==
  call.kind = "MLA" =>
    LET r == SDPAOnHeads
    IN IF call.result.status = "ok"
       THEN /\ r.status = "ok"
            /\ r.attention_weights = call.result.attn_weights
            /\ r.output = call.result.out
       ELSE \/ r.status # "ok"
            \/ ~ViewOK(r.output,
                       <<call.x.shape[1], call.x.shape[2], inst.attrs.embed_dim>>)

\* a training-mode call with two heads under a mask that hides a key, with
\* dropout 0.5 drawn on every second entry: a kept weight is scaled above 1
C25_Witness ==
  /\ MLAReturned /\ inst.attrs.num_heads = 2
  /\ inst.training /\ inst.attrs.dropout.p = 5 /\ call.pattern = "odd"
  /\ ~call.mask.none
  /\ \E ix \in DOMAIN call.result.attn_weights.at :
       /\ Masked(call.mask, ix)
       /\ call.result.attn_weights.at[ix] = Fin(0)
  /\ \E ix \in DOMAIN call.result.attn_weights.at :
       /\ ~call.result.attn_weights.at[ix].nan
       /\ call.result.attn_weights.at[ix].v > One
  /\ \E ix \in DOMAIN call.result.out.at :
       ~call.result.out.at[ix].nan /\ call.result.out.at[ix].v > 0

(* ------------------------- what a call leaves alone -------------------- *)

\* the tensors the caller handed to the call are those it generated
InputsAsGiven(c) ==
  IF c.kind = "SDPA"
  THEN /\ \E qs \in QSeeds : c.query = FromSeed(c.query.shape, qs, 4)
       /\ \E ks \in KSeeds : c.key = FromSeed(c.key.shape, ks, 4)
       /\ \E vs \in VSeeds : c.value = FromSeed(c.value.shape, vs, 4)
       /\ c.mask \in Masks(c.query.shape[2], c.key.shape[2])
  ELSE /\ \E xs \in XSeeds : c.x = FromSeed(c.x.shape, xs, 3)
       /\ c.mask \in VariantMasks(c.x.shape[1], HeadsArg, c.x.shape[2])

\* C26: a forward call of SDPA, MHA, MQA, GQA or MLA, returning or raising,
\* leaves the module (projection weights, configuration attributes, mode) and
\* the tensors of the caller as they were; only a dropout draw is consumed
C26_ForwardLeavesModuleAndInputs ==
  [][(call = NoCall /\ call' # NoCall) =>
       /\ inst' = inst
       /\ kept' = kept
       /\ InputsAsGiven(call')]_vars

\* a returned training-mode call that consumed a dropout draw, on a module
\* that is still in training mode
C26_Witness ==
  /\ call.kind \in {"SDPA", "MHA", "MQA", "MLA"} /\ call.result.status = "ok"
  /\ call.pattern = "odd"
  /\ inst.training /\ inst.status = "ok"

(* ------------------- GroupedQueryAttention: dimensions ----------------- *)

\* C27: every GroupedQueryAttention whose construction succeeds has an
\* embed_dim divisible by num_query_heads and by num_groups, with
\* heads_per_group * num_groups = num_query_heads and
\* query_head_dim * num_query_heads = embed_dim
C27_GQADimensionsDivide ==
  (inst.kind = "GQA" /\ inst.status = "ok") =>
    LET a == inst.attrs
    IN /\ Divides(a.num_query_heads, a.embed_dim)
       /\ Divides(a.num_groups, a.embed_dim)
       /\ a.heads_per_group * a.num_groups = a.num_query_heads
       /\ a.query_head_dim * a.num_query_heads = a.embed_dim
       /\ a.embed_dim = inst.args.embed_dim
       /\ a.num_query_heads = inst.args.num_query_heads
       /\ a.num_groups = inst.args.num_groups

\* GroupedQueryAttention(embed_dim=4, num_query_heads=4, num_groups=2): two
\* heads per group, head dimension 1
C27_Witness ==
  /\ inst.kind = "GQA" /\ inst.status = "ok"
  /\ inst.attrs.embed_dim = 4 /\ inst.attrs.num_query_heads = 4
  /\ inst.attrs.num_groups = 2 /\ inst.attrs.heads_per_group = 2
  /\ inst.attrs.query_head_dim = 1

(* ------------------------- head split and merge ------------------------ *)

\* a completed call of a module that splits and merges heads
SplitReturned ==
  call.kind \in {"MHA", "MQA", "GQA", "MLA"} /\ call.result.status = "ok"

\* the per-head queries of the call, and the per-head attention output
HeadQ == IF call.kind = "MLA" THEN call.result.Q ELSE call.result.q

HeadOut == IF call.kind = "MLA" THEN call.result.out ELSE call.result.attn_output

\* feature column c of t sits in head (c - 1) div head_dim + 1 at offset
\* (c - 1) mod head_dim + 1 (columns, heads and offsets counted from 1)
HeadLayout(t, heads, head_dim) ==
  LET shape == <<t.shape[1], heads, t.shape[2], head_dim>>
  IN Tensor(shape, [ix \in Indices(shape) |->
       t.at[<<ix[1], ix[3], (ix[2] - 1) * head_dim + ix[4]>>]])

\* the heads side by side: column c is taken from head (c - 1) div head_dim + 1
Concatenated(o) ==
  LET head_dim == o.shape[4]
      shape == <<o.shape[1], o.shape[3], o.shape[2] * head_dim>>
  IN Tensor(shape, [ix \in Indices(shape) |->
       o.at[<<ix[1], ((ix[3] - 1) \div head_dim) + 1, ix[2],
              ((ix[3] - 1) % head_dim) + 1>>]])

\* C28: the split assigns column c of the projection to head c div head_dim
\* at offset c mod head_dim, transposing back and merging returns the
\* projection, and column c of the merged attention output comes only from
\* head c div head_dim
C28_SplitAndMergeAreInverse ==
  SplitReturned =>
    LET a == inst.attrs
        b == call.x.shape[1]
        s == call.x.shape[2]
        hd == a.embed_dim \div HeadsArg
        t == LinearApply(a.q_proj, call.x)
        merged == MergeHeads(HeadOut, b, s, a.embed_dim)
    IN /\ HeadQ = HeadLayout(t, HeadsArg, hd)
       /\ MergeHeads(HeadQ, b, s, a.embed_dim) = t
       /\ merged = Concatenated(HeadOut)
       /\ SplitHeads(merged, b, s, HeadsArg, hd) = HeadOut
       /\ call.result.output = FLinearApply(a.out_proj, merged)

\* two heads of width 2 over two positions: the layout is not that of the
\* tensors viewed without the transpose
C28_Witness ==
  /\ SplitReturned /\ HeadsArg = 2 /\ inst.attrs.embed_dim = 4
  /\ call.x.shape[2] = 2
  /\ HeadQ # View(LinearApply(inst.attrs.q_proj, call.x), HeadQ.shape)
  /\ Concatenated(HeadOut) # View(HeadOut, call.x.shape)
  /\ \A ix \in DOMAIN HeadOut.at : ~HeadOut.at[ix].nan

(* ------------- ScaledDotProductAttention: the weights returned --------- *)

\* C29: in training and in eval mode the attention_weights returned are the
\* tensor multiplied with value to give the output returned; in eval mode or
\* with dropout probability 0 they are the softmax of the masked scores
C29_ReturnedWeightsAreTheOnesUsed ==
  SDPAReturned =>
    /\ call.result.output = FMatmul(call.result.attention_weights, call.value)
    /\ DropoutOff => call.result.attention_weights = Softmax(MaskedScores)

\* a training-mode call with dropout 0.5: the weights returned are not the
\* softmax, and the output is their product with value, not the softmax's
C29_Witness ==
  /\ SDPAReturned /\ inst.training /\ inst.dropout.p = 5
  /\ LET softmax == Softmax(MaskedScores)
     IN /\ call.result.attention_weights # softmax
        /\ call.result.output # FMatmul(softmax, call.value)
        /\ \A ix \in DOMAIN softmax.at : ~softmax.at[ix].nan
  /\ \E ix \in DOMAIN call.result.output.at : call.result.output.at[ix].v > 0

====
